---- MODULE Spec2Model ----
(***************************************************************************)
(* Model of the vkcs_db_cluster_with_shards resource (create, read,        *)
(* import, update, delete) of terraform-provider-vkcs.                     *)
(*                                                                         *)
(* Shard ids are strings in the code; they are modelled as the naturals    *)
(* 1..MaxShardId, the order of the naturals standing for Go's string "<".   *)
(* The id 0 stands for the empty string (the zero value of a string).      *)
(***************************************************************************)
EXTENDS Integers, Sequences, FiniteSets, TLC

VARIABLES
    op,          \* the handler being run: "create", "read", "import", "update", "delete"
    pc,          \* the handler's position
    step,        \* update only: the shard index and field the shard loop is at
    d,           \* schema.ResourceData: id and attributes (state, or config at create)
    config,      \* the attributes the handler was called with; never written
    old,         \* update only: the prior state the diff of d is taken against
    cluster,     \* the remote cluster: exists, status, instances
    createOpts,  \* create only: the request built; NoOpts before it is built
    calls,       \* remote calls issued by the handler, in order
    history,     \* shard lists written by the reads of this run, in order
    wait,        \* the StateChangeConf wait the handler is in, or was last in
    diags,       \* the diagnostics the handler returned
    timeouts,    \* the timeouts of the resource's configuration, by operation
    actionErr,   \* update only: the error the failed action returned
    catalogue,       \* flavor data source: the flavors of the remote, as it lists them
    requiredFlavor,  \* flavor data source: the query of the configuration
    allFlavors,      \* flavor data source: the flavors listed, then filtered
    flavor           \* flavor data source: the flavor selected

vars == <<op, pc, step, d, config, old, cluster, createOpts, calls, history,
          wait, diags, timeouts, actionErr, catalogue, requiredFlavor, allFlavors,
          flavor>>

\* ---------------------------------------------------------------- bounds

MaxShards == 2
MaxShardId == 3
MaxSize == 2
MaxInstances == 3
MaxFlavors == 3
MaxRAM == 2
MaxDisk == 2
MaxVCPUs == 2

\* The refreshes a wait with the default timeout has the time for.
MaxPolls == 2

\* ---------------------------------------------------------------- values

ShardIds == 1..MaxShardId
NoOpts == [Instances |-> <<>>, built |-> FALSE]

\* The attributes of a shard block other than shard_id and size.  Two
\* bundles that differ in every attribute the code copies; one has no WAL
\* volume and no availability zone.
ShardAttrs ==
    { [flavor_id |-> "f1", volume_size |-> 10, volume_type |-> "ssd",
       wal_volume |-> <<>>,
       network |-> <<[uuid |-> "n1"]>>, availability_zone |-> ""],
      [flavor_id |-> "f2", volume_size |-> 20, volume_type |-> "hdd",
       wal_volume |-> <<[size |-> 5, volume_type |-> "ssd"]>>,
       network |-> <<[uuid |-> "n2"]>>, availability_zone |-> "az2"] }

\* A shard block of the schema (lines 643-790).
Shard(id, size, a) ==
    [shard_id |-> id, size |-> size, flavor_id |-> a.flavor_id,
     volume_size |-> a.volume_size, volume_type |-> a.volume_type,
     wal_volume |-> a.wal_volume, network |-> a.network,
     availability_zone |-> a.availability_zone, instances |-> <<>>]

ShardBlocks(sizes) ==
    { Shard(id, size, a) : id \in ShardIds, size \in sizes, a \in ShardAttrs }

\* A remote call: its name and the shard it is about (0: the cluster).
Call(action, shard) == [action |-> action, shard |-> shard]

NoStep == [i |-> 0, field |-> ""]

\* No wait was started yet.
NoWait ==
    [active |-> FALSE, pending |-> {}, target |-> {}, budget |-> "",
     delay |-> 0, timeout |-> 0, elapsed |-> 0, seen |-> <<>>, result |-> ""]

\* flattenDatabaseInstanceDatastore: the datastore block of a remote datastore.
flattenDatabaseInstanceDatastore(ds) == <<[type |-> ds.Type, version |-> ds.Version]>>

\* flattenDatabaseInstanceAutoExpand: the autoexpand block of the remote's
\* flag and size limit.
flattenDatabaseInstanceAutoExpand(autoExpand, maxDiskSize) ==
    <<[autoexpand |-> autoExpand # 0, max_disk_size |-> maxDiskSize]>>

\* The attributes of the resource other than the shards: name and datastore
\* are required (lines 470-505), the others are at their zero values.
\* shrink_options holds the shrink_options of the shard blocks of the
\* configuration, by index: its diff is suppressed (lines 667-669), so it is
\* never part of the shard blocks of the state.
Data(id, shard, keypair, configuration_id) ==
    [id |-> id, shard |-> shard, keypair |-> keypair,
     name |-> "db",
     datastore |-> <<[type |-> "mysql", version |-> "8.0"]>>,
     configuration_id |-> configuration_id,
     disk_autoexpand |-> <<>>, wal_disk_autoexpand |-> <<>>,
     capabilities |-> <<>>, cloud_monitoring_enabled |-> FALSE,
     shrink_options |-> <<>>]

\* The top-level attributes of a remote cluster that is as the attributes
\* data ask for.
clusterTop(data) ==
    LET da == data.disk_autoexpand
        wa == data.wal_disk_autoexpand
        ds == data.datastore
    IN  [Name |-> data.name,
         DataStore |-> IF ds = <<>> THEN [Type |-> "", Version |-> ""]
                       ELSE [Type |-> ds[1].type, Version |-> ds[1].version],
         ConfigurationID |-> data.configuration_id,
         AutoExpand |-> IF da # <<>> /\ da[1].autoexpand THEN 1 ELSE 0,
         MaxDiskSize |-> IF da # <<>> THEN da[1].max_disk_size ELSE 0,
         WalAutoExpand |-> IF wa # <<>> /\ wa[1].autoexpand THEN 1 ELSE 0,
         WalMaxDiskSize |-> IF wa # <<>> THEN wa[1].max_disk_size ELSE 0]

\* The remote cluster (clusters.ClusterResp): whether it exists, its status,
\* its instances and its top-level attributes.
ClusterResp(exists, status, instances, top) ==
    [exists |-> exists, status |-> status, instances |-> instances,
     Name |-> top.Name, DataStore |-> top.DataStore,
     ConfigurationID |-> top.ConfigurationID,
     AutoExpand |-> top.AutoExpand, MaxDiskSize |-> top.MaxDiskSize,
     WalAutoExpand |-> top.WalAutoExpand, WalMaxDiskSize |-> top.WalMaxDiskSize]

\* Delay of the StateChangeConf of lines 922, 1048 and 1153, in ticks; a
\* refresh takes one tick.
dbInstanceDelay == 2

\* The defaults of lines 455-458.
dbCreateTimeout == dbInstanceDelay + MaxPolls

dbDeleteTimeout == dbInstanceDelay + MaxPolls

\* Lines 455-458: the resource has a timeout for create and one for delete.
DefaultTimeouts == [create |-> dbCreateTimeout, delete |-> dbDeleteTimeout]

\* The timeouts a configuration may set: the defaults, or one timeout that is
\* shorter than the delay.
TimeoutChoices ==
    {DefaultTimeouts,
     [DefaultTimeouts EXCEPT !.create = dbInstanceDelay - 1],
     [DefaultTimeouts EXCEPT !.delete = dbInstanceDelay - 1]}

\* An error: base is the error errors.Unwrap gives, or the error itself when
\* it wraps nothing, and cause the text of what is wrapped with it ("": it is
\* base itself).  msg is the text of Error(), a sequence of pieces: the texts
\* of errors and of details; it is "<base>: <cause>" for a wrapping error.
Err(base, cause) ==
    [base |-> base, cause |-> cause,
     msg |-> IF cause = "" THEN <<base>> ELSE <<base, cause>>]

\* No action has failed.
NoErr == Err("", "")

\* A map without keys.
EmptyMap == [k \in {} |-> ""]

\* The extra specs of a flavor (FlavorExtExtraSpecs): nil, or a map.
NoExtraSpecs == [nil |-> TRUE, specs |-> EmptyMap]

ExtraSpecsOf(m) == [nil |-> FALSE, specs |-> m]

\* A flavor of the remote (FlavorExt, lines 216-220): the id and the
\* attributes the data source filters on and stores.
Flavor(id, f) ==
    [ID |-> id, Name |-> f.Name, RAM |-> f.RAM, Disk |-> f.Disk, VCPUs |-> f.VCPUs,
     Swap |-> f.Swap, RxTxFactor |-> f.RxTxFactor, ExtraSpecs |-> f.ExtraSpecs]

\* No flavor is selected (d has no id).
NoFlavor ==
    Flavor(0, [Name |-> "", RAM |-> 0, Disk |-> 0, VCPUs |-> 0, Swap |-> 0,
               RxTxFactor |-> 0, ExtraSpecs |-> NoExtraSpecs])

\* The attributes of the data source a configuration may set (lines 34-113),
\* at their zero values; is_public is left unset.
NoQuery ==
    [flavor_id |-> 0, name |-> "", min_ram |-> 0, ram |-> 0, vcpus |-> 0,
     min_disk |-> 0, disk |-> 0, swap |-> 0, rx_tx_factor |-> 0,
     extra_specs |-> EmptyMap]

\* Mutant: the exact ram and disk do not take the place of the minimum.
NewRequiredFlavorFromResourceData_KeepsMin(data) ==
    [Name |-> data.name, HasName |-> data.name # "",
     RAM |-> data.ram, HasRAM |-> data.ram # 0,
     VCPUs |-> data.vcpus, HasVCPUs |-> data.vcpus # 0,
     Disk |-> data.disk, HasDisk |-> data.disk # 0,
     MinDisk |-> data.min_disk,
     HasMinDisk |-> data.min_disk # 0,
     MinRAM |-> data.min_ram,
     HasMinRAM |-> data.min_ram # 0,
     RxTxFactor |-> data.rx_tx_factor, HasRxTxFactor |-> data.rx_tx_factor # 0,
     Swap |-> data.swap, HasSwap |-> data.swap # 0,
     ExtraSpecs |-> data.extra_specs, HasExtraSpecs |-> DOMAIN data.extra_specs # {}]

\* Lines 165-214, NewRequiredFlavorFromResourceData: d.GetOk gives "has" for a
\* value that is not the zero value.  The exact ram and disk, when set, take
\* the place of the minimum (lines 176-181).
NewRequiredFlavorFromResourceData(data) ==
    [Name |-> data.name, HasName |-> data.name # "",
     RAM |-> data.ram, HasRAM |-> data.ram # 0,
     VCPUs |-> data.vcpus, HasVCPUs |-> data.vcpus # 0,
     Disk |-> data.disk, HasDisk |-> data.disk # 0,
     MinDisk |-> IF data.disk # 0 THEN data.disk ELSE data.min_disk,
     HasMinDisk |-> data.min_disk # 0,
     MinRAM |-> IF data.ram # 0 THEN data.ram ELSE data.min_ram,
     HasMinRAM |-> data.min_ram # 0,
     RxTxFactor |-> data.rx_tx_factor, HasRxTxFactor |-> data.rx_tx_factor # 0,
     Swap |-> data.swap, HasSwap |-> data.swap # 0,
     ExtraSpecs |-> data.extra_specs, HasExtraSpecs |-> DOMAIN data.extra_specs # {}]

\* No flavor is asked for.
NoRequiredFlavor == NewRequiredFlavorFromResourceData(NoQuery)

SeqsUpTo(S, n) == UNION { [1..k -> S] : k \in 0..n }

Keypairs == {"", "kp1"}
ConfigurationIds == {"", "cfg1"}

\* ---------------------------------------------------------------- create

\* extractDatabaseNetworks: the network blocks of a shard as the request's Nics.
extractDatabaseNetworks(network) ==
    [k \in 1..Len(network) |-> [NetID |-> network[k].uuid]]

\* extractDatabaseWalVolume on a non-empty wal_volume list.
extractDatabaseWalVolume(walVolumeV) ==
    [Size |-> walVolumeV[1].size, VolumeType |-> walVolumeV[1].volume_type]

\* Mutant: the keypair loop of lines 880-882 left out.
shardInfoOf_NoKeypair(shardMap, keypair) ==
    [Volume |-> [Size |-> shardMap.volume_size, VolumeType |-> shardMap.volume_type],
     Nics |-> extractDatabaseNetworks(shardMap.network),
     AvailabilityZone |-> shardMap.availability_zone,
     FlavorRef |-> shardMap.flavor_id,
     ShardID |-> shardMap.shard_id,
     Walvolume |-> IF Len(shardMap.wal_volume) > 0
                   THEN <<extractDatabaseWalVolume(shardMap.wal_volume)>>
                   ELSE <<>>,
     Keypair |-> ""]

\* One pass of the loop of lines 859-878 plus the keypair loop of 880-882.
shardInfoOf(shardMap, keypair) ==
    [Volume |-> [Size |-> shardMap.volume_size, VolumeType |-> shardMap.volume_type],
     Nics |-> extractDatabaseNetworks(shardMap.network),
     AvailabilityZone |-> shardMap.availability_zone,
     FlavorRef |-> shardMap.flavor_id,
     ShardID |-> shardMap.shard_id,
     Walvolume |-> IF Len(shardMap.wal_volume) > 0
                   THEN <<extractDatabaseWalVolume(shardMap.wal_volume)>>
                   ELSE <<>>,
     Keypair |-> keypair]

shardInfo(shardsRaw, keypair) ==
    [i \in 1..Len(shardsRaw) |-> shardInfoOf(shardsRaw[i], keypair)]

shardsSize(shardsRaw) == [i \in 1..Len(shardsRaw) |-> shardsRaw[i].size]

\* Mutant: the inner loop of lines 886-889 runs once whatever the shard's size.
RECURSIVE clusterInstancesFrom_OnePerShard(_, _, _)
clusterInstancesFrom_OnePerShard(info, sizes, i) ==
    IF i > Len(info) THEN <<>>
    ELSE <<info[i]>> \o clusterInstancesFrom_OnePerShard(info, sizes, i + 1)

\* The nested loop of lines 885-890, from shard i on.
RECURSIVE clusterInstancesFrom(_, _, _)
clusterInstancesFrom(info, sizes, i) ==
    IF i > Len(info) THEN <<>>
    ELSE [j \in 1..sizes[i] |-> info[i]] \o clusterInstancesFrom(info, sizes, i + 1)

clusterInstances(shardsRaw, keypair) ==
    clusterInstancesFrom(shardInfo(shardsRaw, keypair), shardsSize(shardsRaw), 1)

\* ---------------------------------------------------------------- read

\* What the remote reports of one instance (clusters.ClusterInstanceResp).
Instance(id, shardID, a) ==
    [ID |-> id, ShardID |-> shardID, FlavorID |-> a.flavor_id,
     VolumeSize |-> a.volume_size,
     WalVolume |-> IF Len(a.wal_volume) > 0
                   THEN <<[Size |-> a.wal_volume[1].size]>> ELSE <<>>]

\* getDatabaseClusterShardInstances: the remote instances grouped by shard id,
\* each group in the order of the remote list (a Go map keyed by shard id).
getDatabaseClusterShardInstances(instances) ==
    [s \in {instances[k].ShardID : k \in 1..Len(instances)} |->
        LET ofShard(inst) == inst.ShardID = s IN SelectSeq(instances, ofShard)]

flattenDatabaseClusterInstances(insts) ==
    [k \in 1..Len(insts) |-> [instance_id |-> insts[k].ID]]

flattenDatabaseClusterWalVolume(w) == [size |-> w.Size, volume_type |-> ""]

\* flattenDatabaseClusterShard: one shard map from the instances of a shard.
\* It carries no volume_type, network or availability_zone.
flattenDatabaseClusterShard(shardID, insts) ==
    [shard_id |-> shardID, size |-> Len(insts),
     flavor_id |-> insts[1].FlavorID, volume_size |-> insts[1].VolumeSize,
     volume_type |-> "",
     wal_volume |-> IF Len(insts[1].WalVolume) > 0
                    THEN <<flattenDatabaseClusterWalVolume(insts[1].WalVolume[1])>>
                    ELSE <<>>,
     network |-> <<>>, availability_zone |-> "",
     instances |-> flattenDatabaseClusterInstances(insts)]

\* The orders in which Go may iterate over a map with the keys S.
MapOrders(S) ==
    { f \in [1..Cardinality(S) -> S] : \A i, j \in DOMAIN f : i # j => f[i] # f[j] }

\* flattenDatabaseClusterShards: one shard map per key, in map iteration order.
flattenDatabaseClusterShards(shardsInstances, order) ==
    [k \in 1..Len(order) |-> flattenDatabaseClusterShard(order[k], shardsInstances[order[k]])]

\* sort.Slice by shard_id ascending (lines 979-981).
sortInsert(x, s) ==
    LET k == Cardinality({i \in 1..Len(s) : s[i].shard_id < x.shard_id})
    IN  SubSeq(s, 1, k) \o <<x>> \o SubSeq(s, k + 1, Len(s))

\* Mutant: the sort of lines 979-981 left out.
sortSlice_Unsorted(s) == s

RECURSIVE sortSlice(_)
sortSlice(s) ==
    IF Len(s) <= 1 THEN s ELSE sortInsert(Head(s), sortSlice(Tail(s)))

\* The inner loop of lines 989-995: fSh's shard_id occurs in rawShards.
inRawShards(fSh, rawShards) ==
    \E k \in 1..Len(rawShards) : fSh.shard_id = rawShards[k].shard_id

\* OuterLoop, lines 987-997: the flattened shards found in rawShards.
RECURSIVE knownShards(_, _)
knownShards(flattenedShards, rawShards) ==
    IF flattenedShards = <<>> THEN <<>>
    ELSE LET fSh == Head(flattenedShards)
             rest == knownShards(Tail(flattenedShards), rawShards)
         IN  IF inRawShards(fSh, rawShards) THEN <<fSh>> \o rest ELSE rest

\* Mutant: "continue OuterLoop" left out, so every shard reaches newShards.
newShards_KeepsAll(flattenedShards, rawShards) == flattenedShards

\* OuterLoop, lines 987-997: the flattened shards not found in rawShards.
RECURSIVE newShards(_, _)
newShards(flattenedShards, rawShards) ==
    IF flattenedShards = <<>> THEN <<>>
    ELSE LET fSh == Head(flattenedShards)
             rest == newShards(Tail(flattenedShards), rawShards)
         IN  IF inRawShards(fSh, rawShards) THEN rest ELSE <<fSh>> \o rest

\* Lines 1000-1016: the attributes of state index i laid over the shard at index i.
overlayShard(sh, i, rawShards) ==
    LET has == i <= Len(rawShards)
        vt == IF has THEN rawShards[i].volume_type ELSE ""
        wvt == IF has /\ Len(rawShards[i].wal_volume) > 0
               THEN rawShards[i].wal_volume[1].volume_type ELSE ""
    IN  [sh EXCEPT
           !.availability_zone = IF has THEN rawShards[i].availability_zone ELSE "",
           !.network = IF has THEN rawShards[i].network ELSE <<>>,
           !.volume_type = IF vt # "" THEN vt ELSE @,
           !.wal_volume = IF wvt # "" /\ Len(@) > 0
                          THEN <<[@[1] EXCEPT !.volume_type = wvt]>> ELSE @]

\* Lines 976-1031: the shard list read writes to state.
readShards(instances, rawShards, order) ==
    LET shardsInstances == getDatabaseClusterShardInstances(instances)
        flattenedShards ==
            sortSlice(flattenDatabaseClusterShards(shardsInstances, order))
        shards == knownShards(flattenedShards, rawShards)
                     \o newShards(flattenedShards, rawShards)
    IN  [i \in 1..Len(shards) |-> overlayShard(shards[i], i, rawShards)]

\* d.GetOk of a block: it is there.
GetOk(block) == block # <<>>

\* Mutant: both autoexpand blocks are refreshed whether set or not.
readTopLevel_Always(data, remote) ==
    [data EXCEPT
        !.name = remote.Name,
        !.datastore = flattenDatabaseInstanceDatastore(remote.DataStore),
        !.configuration_id = remote.ConfigurationID,
        !.disk_autoexpand =
            flattenDatabaseInstanceAutoExpand(remote.AutoExpand, remote.MaxDiskSize),
        !.wal_disk_autoexpand =
            flattenDatabaseInstanceAutoExpand(remote.WalAutoExpand, remote.WalMaxDiskSize)]

\* Lines 961-970: name, datastore and configuration_id are set from the
\* remote cluster, each autoexpand block only when the state has one.
readTopLevel(data, remote) ==
    [data EXCEPT
        !.name = remote.Name,
        !.datastore = flattenDatabaseInstanceDatastore(remote.DataStore),
        !.configuration_id = remote.ConfigurationID,
        !.disk_autoexpand =
            IF GetOk(@)
            THEN flattenDatabaseInstanceAutoExpand(remote.AutoExpand, remote.MaxDiskSize)
            ELSE @,
        !.wal_disk_autoexpand =
            IF GetOk(@)
            THEN flattenDatabaseInstanceAutoExpand(remote.WalAutoExpand,
                                                   remote.WalMaxDiskSize)
            ELSE @]

\* Lines 961-1031: the top-level attributes are set, then d.Get("shard") is
\* followed by the reconciliation and d.Set("shard", shards); the read is
\* recorded in history.
ReadSetsShards(data, remote) ==
    \E order \in MapOrders({remote.instances[k].ShardID : k \in 1..Len(remote.instances)}) :
        LET shards == readShards(remote.instances, data.shard, order)
        IN  /\ d' = [readTopLevel(data, remote) EXCEPT !.shard = shards]
            /\ history' = Append(history, [raw |-> data.shard, out |-> shards])

RemoteShardIds == {cluster.instances[k].ShardID : k \in 1..Len(cluster.instances)}

MaxReads == 2

\* resourceDatabaseClusterWithShardsRead, the remote Get having succeeded.
ReadOk ==
    /\ op = "read" /\ pc = "read" /\ Len(history) < MaxReads
    /\ cluster.exists
    /\ ReadSetsShards(d, cluster)
    /\ calls' = Append(calls, Call("Get", 0))
    /\ UNCHANGED <<wait, diags>>
    /\ UNCHANGED <<timeouts, catalogue, requiredFlavor, allFlavors, flavor>>
    /\ UNCHANGED actionErr
    /\ UNCHANGED <<op, step, pc, config, old, cluster, createOpts>>

\* Lines 954-957: the Get failed; CheckDeleted clears the id on a 404.
ReadGetFailed ==
    /\ op = "read" /\ pc = "read" /\ Len(history) < MaxReads
    /\ \/ /\ ~cluster.exists
          /\ d' = [d EXCEPT !.id = ""]
          /\ pc' = "gone"
       \/ /\ pc' = "failed"
          /\ UNCHANGED d
    /\ calls' = Append(calls, Call("Get", 0))
    /\ UNCHANGED <<wait, diags>>
    /\ UNCHANGED <<timeouts, catalogue, requiredFlavor, allFlavors, flavor>>
    /\ UNCHANGED actionErr
    /\ UNCHANGED <<op, step, config, old, cluster, createOpts, history>>

\* The attributes of the remote instances of a shard in the read runs: the
\* instances of one shard are alike.
InstanceAttrsOf(s) ==
    CHOOSE a \in ShardAttrs : (a.flavor_id = "f1") <=> (s % 2 = 0)

\* The attributes recorded for a shard in the read runs.
RecordedAttrsOf(s) ==
    CHOOSE a \in ShardAttrs : (a.flavor_id = "f1") <=> (s % 2 = 1)

\* The top-level attributes recorded in the read runs: no autoexpand block,
\* the disk's only, or both, with a name and a configuration the remote may
\* not have.
RecordedTops ==
    { [Data("c1", <<>>, "", "cfg1") EXCEPT
          !.name = "db0", !.disk_autoexpand = da, !.wal_disk_autoexpand = wa] :
      da \in {<<>>, <<[autoexpand |-> FALSE, max_disk_size |-> 0]>>},
      wa \in {<<>>, <<[autoexpand |-> TRUE, max_disk_size |-> 50]>>} }

\* The top-level attributes of the remote cluster in the read runs.
RemoteTops ==
    { [Name |-> "db", DataStore |-> [Type |-> "postgresql", Version |-> "14"],
       ConfigurationID |-> "cfg2",
       AutoExpand |-> 1, MaxDiskSize |-> 100,
       WalAutoExpand |-> 0, WalMaxDiskSize |-> 0],
      clusterTop(Data("c1", <<>>, "", "")) }

InitRead ==
    /\ op = "read" /\ pc = "read"
    /\ \E sh \in SeqsUpTo({Shard(id, 1, RecordedAttrsOf(id)) : id \in ShardIds},
                           MaxShards), top \in RecordedTops :
         d = [top EXCEPT !.shard = sh]
    /\ config = d
    /\ step = NoStep
    /\ old = d
    /\ \E ids \in SeqsUpTo(ShardIds, MaxInstances), ex \in BOOLEAN, top \in RemoteTops :
         cluster = ClusterResp(ex, "ACTIVE",
                               [k \in 1..Len(ids) |->
                                   Instance(k, ids[k], InstanceAttrsOf(ids[k]))],
                               top)
    /\ createOpts = NoOpts
    /\ calls = <<>>
    /\ history = <<>>
    /\ wait = NoWait
    /\ diags = <<>>
    /\ timeouts = DefaultTimeouts
    /\ catalogue = <<>>
    /\ requiredFlavor = NoRequiredFlavor
    /\ allFlavors = <<>>
    /\ flavor = NoFlavor
    /\ actionErr = NoErr

NextRead == ReadOk \/ ReadGetFailed

SpecRead == InitRead /\ [][NextRead]_vars

\* ---------------------------------------------------------------- the wait for a status

\* d.Timeout(key).
Timeout(key) == timeouts[key]

\* A diagnostic: the message, the cluster and the shard (0: none) it names,
\* and the cause it ends with ("": none); msg is its whole text, in pieces.
Diag(text, clusterID, shardID, cause) ==
    [text |-> text, cluster |-> clusterID, shard |-> shardID, cause |-> cause,
     msg |-> IF cause = "" THEN <<text>> ELSE <<text, cause>>]

\* What a refresh may find instead of a status.
FetchError == "fetch error"

\* The status the remote may report at the next refresh: a cluster being
\* built or changed becomes active or fails, a cluster being deleted passes
\* through DELETING to DELETED, and any status may last.
StatusNext(status) ==
    IF op = "delete"
    THEN CASE status = "DELETED" -> {"DELETED"}
           [] status = "DELETING" -> {"DELETING", "DELETED", "ERROR"}
           [] OTHER -> {status, "DELETING", "DELETED", "ERROR"}
    ELSE CASE status = "BUILD" -> {"BUILD", "ACTIVE", "ERROR"}
           [] OTHER -> {status}

\* resource.StateChangeConf with Pending, Target, the Timeout of
\* d.Timeout(budget) and the Delay dbInstanceDelay.
StateChangeConf(pending, target, budget) ==
    [NoWait EXCEPT !.active = TRUE, !.pending = pending, !.target = target,
                   !.budget = budget, !.timeout = Timeout(budget),
                   !.delay = dbInstanceDelay]

\* Mutant: a status that is neither pending nor the target is polled again.
refreshResult_NoFailFast(w, obs) ==
    IF obs = FetchError THEN "error"
    ELSE IF obs \in w.target THEN "ok"
    ELSE ""

\* WaitForStateContext, one refresh: its error ends the wait, then a target
\* status ends it with success, then a status that is not pending ends it with
\* an unexpected-state error; a pending status is polled again.
refreshResult(w, obs) ==
    IF obs = FetchError THEN "error"
    ELSE IF obs \in w.target THEN "ok"
    ELSE IF obs \notin w.pending THEN "unexpected"
    ELSE ""

\* Mutant: the timeout is never taken.
timedOut_Never(w) == FALSE

\* WaitForStateContext: the timeout has elapsed.
timedOut(w) == w.elapsed >= w.timeout

\* Mutant: the first refresh does not wait for the delay.
delayed_NoDelay(w) == TRUE

\* WaitForStateContext: the delay before the first refresh has elapsed.
delayed(w) == w.elapsed >= w.delay

\* Mutant: the wait takes note of the cancellation and goes on.
onCancel_GoesOn(w) == [w EXCEPT !.result = "cancelled"]

\* WaitForStateContext: the context is done; the wait ends with its error.
onCancel(w) == [w EXCEPT !.active = FALSE, !.result = "cancelled"]

\* WaitForStateContext, one step of the wait w: the delay passes (or the
\* timeout, when it is the shorter), a refresh through
\* databaseClusterStateRefreshFunc is made, the timeout is taken, or the
\* caller cancels the context.
WaitStep(w) ==
    /\ w.active
    /\ \/ /\ ~timedOut(w) /\ ~delayed(w)
          /\ wait' = [w EXCEPT !.elapsed = IF w.timeout < w.delay THEN w.timeout
                                           ELSE w.delay]
          /\ UNCHANGED cluster
       \/ /\ ~timedOut(w) /\ delayed(w)
          /\ \E obs \in StatusNext(cluster.status) \cup {FetchError} :
               /\ wait' = [w EXCEPT !.seen = Append(@, obs),
                                    !.elapsed = @ + 1,
                                    !.result = refreshResult(w, obs),
                                    !.active = refreshResult(w, obs) = ""]
               /\ cluster' = IF obs = FetchError THEN cluster
                             ELSE [cluster EXCEPT !.status = obs]
       \/ /\ timedOut(w)
          /\ wait' = [w EXCEPT !.active = FALSE, !.result = "timeout"]
          /\ UNCHANGED cluster
       \/ /\ wait' = onCancel(w)
          /\ UNCHANGED cluster

\* ---------------------------------------------------------------- create, the handler

\* Lines 854-891: the instances of the create request.
CreateBuildRequest ==
    /\ op = "create" /\ pc = "build"
    /\ createOpts' = [Instances |-> clusterInstances(d.shard, d.keypair), built |-> TRUE]
    /\ pc' = "create"
    /\ UNCHANGED <<wait, diags>>
    /\ UNCHANGED <<timeouts, catalogue, requiredFlavor, allFlavors, flavor>>
    /\ UNCHANGED actionErr
    /\ UNCHANGED <<op, step, d, config, old, cluster, calls, history>>

\* The instances the remote reports for an accepted create request.
createdInstances(req) ==
    [k \in 1..Len(req) |->
        [ID |-> k, ShardID |-> req[k].ShardID, FlavorID |-> req[k].FlavorRef,
         VolumeSize |-> req[k].Volume.Size,
         WalVolume |-> IF Len(req[k].Walvolume) > 0
                       THEN <<[Size |-> req[k].Walvolume[1].Size]>> ELSE <<>>]]

\* Mutant: the id is stored as soon as the cluster is created.
idAfterCreate_Stored(data, id) == [data EXCEPT !.id = id]

\* Lines 909-940: the id of the created cluster is held in the local variable
\* cluster; d gets it at line 943.
idAfterCreate(data, id) == data

\* Lines 909-924: clusters.Create, and the StateChangeConf of the wait.
CreateRemote ==
    /\ op = "create" /\ pc = "create"
    /\ \/ /\ cluster' = ClusterResp(TRUE, "BUILD",
                                     createdInstances(createOpts.Instances),
                                     [clusterTop(d) EXCEPT !.ConfigurationID = ""])
          /\ pc' = "wait"
          /\ wait' = StateChangeConf({"BUILD"}, {"ACTIVE"}, "create")
          /\ d' = idAfterCreate(d, "c1")
          /\ UNCHANGED diags
       \/ /\ pc' = "failed"
          /\ diags' = <<Diag("error creating vkcs_db_cluster_with_shards", "", 0,
                             "create error")>>
          /\ UNCHANGED <<cluster, wait, d>>
    /\ calls' = Append(calls, Call("Create", 0))
    /\ UNCHANGED <<timeouts, catalogue, requiredFlavor, allFlavors, flavor>>
    /\ UNCHANGED actionErr
    /\ UNCHANGED <<op, step, config, old, createOpts, history>>

\* Lines 926-929: the wait for ACTIVE, one step of it.
CreateWait ==
    /\ op = "create" /\ pc = "wait"
    /\ WaitStep(wait)
    /\ pc' = IF wait'.active THEN "wait"
             ELSE IF wait'.result = "ok" THEN "attach" ELSE "failed"
    /\ diags' = IF wait'.active \/ wait'.result = "ok" THEN diags
                ELSE <<Diag("error waiting for vkcs_db_cluster_with_shards to become ready",
                            "c1", 0, wait'.result)>>
    /\ UNCHANGED <<timeouts, catalogue, requiredFlavor, allFlavors, flavor>>
    /\ UNCHANGED actionErr
    /\ UNCHANGED <<op, step, d, config, old, createOpts, calls, history>>

\* Lines 931-940: the configuration group is attached when one is set.
CreateAttach ==
    /\ op = "create" /\ pc = "attach"
    /\ \/ /\ d.configuration_id = ""
          /\ pc' = "setid"
          /\ UNCHANGED <<calls, diags, cluster>>
       \/ /\ d.configuration_id # ""
          /\ \/ /\ pc' = "setid"
                /\ cluster' = [cluster EXCEPT !.ConfigurationID = d.configuration_id]
                /\ UNCHANGED diags
             \/ /\ pc' = "failed"
                /\ diags' = <<Diag("error attaching configuration group to vkcs_db_cluster_with_shards",
                                   "c1", 0, "attach error")>>
                /\ UNCHANGED cluster
          /\ calls' = Append(calls, Call("AttachConfigurationGroup", 0))
    /\ UNCHANGED wait
    /\ UNCHANGED <<timeouts, catalogue, requiredFlavor, allFlavors, flavor>>
    /\ UNCHANGED actionErr
    /\ UNCHANGED <<op, step, d, config, old, createOpts, history>>

\* Lines 943-944: the id is stored and the handler ends with a read.
CreateSetIdRead ==
    /\ op = "create" /\ pc = "setid"
    /\ \/ /\ ReadSetsShards([d EXCEPT !.id = "c1"], cluster)
          /\ pc' = "done"
          /\ UNCHANGED diags
       \/ /\ d' = [d EXCEPT !.id = "c1"]
          /\ pc' = "failed"
          /\ diags' = <<Diag("error retrieving vkcs_db_cluster_with_shards", "", 0,
                             "get error")>>
          /\ UNCHANGED history
    /\ calls' = Append(calls, Call("Get", 0))
    /\ UNCHANGED wait
    /\ UNCHANGED <<timeouts, catalogue, requiredFlavor, allFlavors, flavor>>
    /\ UNCHANGED actionErr
    /\ UNCHANGED <<op, step, config, old, cluster, createOpts>>

InitCreateWith(t) ==
    /\ op = "create" /\ pc = "build"
    /\ \E sh \in SeqsUpTo(ShardBlocks(0..MaxSize), MaxShards),
          kp \in Keypairs, cfg \in ConfigurationIds :
         d = Data("", sh, kp, cfg)
    /\ config = d
    /\ step = NoStep
    /\ old = d
    /\ cluster = ClusterResp(FALSE, "", <<>>, clusterTop(d))
    /\ createOpts = NoOpts
    /\ calls = <<>>
    /\ history = <<>>
    /\ wait = NoWait
    /\ diags = <<>>
    /\ timeouts = t
    /\ catalogue = <<>>
    /\ requiredFlavor = NoRequiredFlavor
    /\ allFlavors = <<>>
    /\ flavor = NoFlavor
    /\ actionErr = NoErr

InitCreate == InitCreateWith(DefaultTimeouts)

NextCreate ==
    CreateBuildRequest \/ CreateRemote \/ CreateWait \/ CreateAttach \/ CreateSetIdRead

SpecCreate == InitCreate /\ [][NextCreate]_vars

\* ---------------------------------------------------------------- delete

\* Mutant: BUILD taken for a pending status of delete.
deletePending_WithBuild == {"ACTIVE", "DELETING", "BUILD"}

\* Line 1149: the pending statuses of delete.
deletePending == {"ACTIVE", "DELETING"}

\* Line 1150: the target status of delete.
deleteTarget == {"DELETED"}

\* Lines 1142-1155: clusters.Delete; CheckDeleted takes a 404 for a cluster
\* that is gone already, clears the id and gives no error.
DeleteRemote ==
    /\ op = "delete" /\ pc = "delete"
    /\ \/ /\ cluster.exists
          /\ pc' = "wait"
          /\ wait' = StateChangeConf(deletePending, deleteTarget, "delete")
          /\ UNCHANGED <<d, diags>>
       \/ /\ ~cluster.exists
          /\ d' = [d EXCEPT !.id = ""]
          /\ pc' = "done"
          /\ UNCHANGED <<wait, diags>>
       \/ /\ pc' = "failed"
          /\ diags' = <<Diag("Error deleting vkcs_db_cluster_with_shards", "", 0,
                             "delete error")>>
          /\ UNCHANGED <<d, wait>>
    /\ calls' = Append(calls, Call("Delete", 0))
    /\ UNCHANGED <<timeouts, catalogue, requiredFlavor, allFlavors, flavor>>
    /\ UNCHANGED actionErr
    /\ UNCHANGED <<op, step, config, old, cluster, createOpts, history>>

\* Lines 1157-1162: the wait for DELETED, one step of it.
DeleteWait ==
    /\ op = "delete" /\ pc = "wait"
    /\ WaitStep(wait)
    /\ pc' = IF wait'.active THEN "wait"
             ELSE IF wait'.result = "ok" THEN "done" ELSE "failed"
    /\ diags' = IF wait'.active \/ wait'.result = "ok" THEN diags
                ELSE <<Diag("error waiting for vkcs_db_cluster_with_shards to delete",
                            d.id, 0, wait'.result)>>
    /\ UNCHANGED <<timeouts, catalogue, requiredFlavor, allFlavors, flavor>>
    /\ UNCHANGED actionErr
    /\ UNCHANGED <<op, step, d, config, old, createOpts, calls, history>>

\* A recorded cluster; the remote one is active, being built, failed or gone.
InitDeleteWith(t) ==
    /\ op = "delete" /\ pc = "delete"
    /\ \E sh \in SeqsUpTo({Shard(id, 1, RecordedAttrsOf(id)) : id \in ShardIds},
                           MaxShards) :
         d = Data("c1", sh, "", "")
    /\ config = d
    /\ old = d
    /\ step = NoStep
    /\ \E status \in {"ACTIVE", "BUILD", "ERROR", "DELETED"} :
         cluster = ClusterResp(status # "DELETED", status,
                               createdInstances(clusterInstances(d.shard, "")),
                               clusterTop(d))
    /\ createOpts = NoOpts
    /\ calls = <<>>
    /\ history = <<>>
    /\ wait = NoWait
    /\ diags = <<>>
    /\ timeouts = t
    /\ catalogue = <<>>
    /\ requiredFlavor = NoRequiredFlavor
    /\ allFlavors = <<>>
    /\ flavor = NoFlavor
    /\ actionErr = NoErr

InitDelete == InitDeleteWith(DefaultTimeouts)

NextDelete == DeleteRemote \/ DeleteWait

SpecDelete == InitDelete /\ [][NextDelete]_vars

\* The waits of create and delete under the scheduling of the handlers: a
\* handler that can take its next step takes it.  The waits do not look at
\* the shards; one shard at most is declared here, and the timeouts are the
\* defaults or shorter than the delay.
InitWait ==
    /\ \E t \in TimeoutChoices : InitCreateWith(t) \/ InitDeleteWith(t)
    /\ Len(d.shard) <= 1

NextWait == NextCreate \/ NextDelete

SpecWait ==
    /\ InitWait /\ [][NextWait]_vars
    /\ WF_vars(NextCreate) /\ WF_vars(NextDelete)

\* ---------------------------------------------------------------- import

\* Mutant: the increment of line 431 left out.
RECURSIVE importShardIDs_NoIncrement(_, _)
importShardIDs_NoIncrement(instances, n) ==
    IF n = 0 THEN <<>>
    ELSE LET m == importShardIDs_NoIncrement(instances, n - 1)
             s == instances[n].ShardID
         IN  IF s \in DOMAIN m THEN m ELSE m @@ (s :> 1)

\* The map shardIDs of lines 427-434 after the first n remote instances.
RECURSIVE importShardIDs(_, _)
importShardIDs(instances, n) ==
    IF n = 0 THEN <<>>
    ELSE LET m == importShardIDs(instances, n - 1)
             s == instances[n].ShardID
         IN  IF s \in DOMAIN m THEN [m EXCEPT ![s] = @ + 1] ELSE m @@ (s :> 1)

\* Lines 435-439: the shard made of the first instance seen of a shard.
importNewShard(inst) ==
    [flattenDatabaseClusterShard(inst.ShardID, <<inst>>) EXCEPT
        !.volume_type = "imported",
        !.wal_volume = IF Len(inst.WalVolume) > 0
                       THEN <<flattenDatabaseClusterWalVolume(inst.WalVolume[1])>>
                       ELSE @]

\* Mutant: a new shard is put before the shards seen so far.
RECURSIVE importNewShards_Prepends(_, _)
importNewShards_Prepends(instances, n) ==
    IF n = 0 THEN <<>>
    ELSE LET prev == importNewShards_Prepends(instances, n - 1)
         IN  IF instances[n].ShardID \in DOMAIN importShardIDs(instances, n - 1)
             THEN prev
             ELSE <<importNewShard(instances[n])>> \o prev

\* The list shards of lines 428-441 after the first n remote instances.
RECURSIVE importNewShards(_, _)
importNewShards(instances, n) ==
    IF n = 0 THEN <<>>
    ELSE LET prev == importNewShards(instances, n - 1)
         IN  IF instances[n].ShardID \in DOMAIN importShardIDs(instances, n - 1)
             THEN prev
             ELSE Append(prev, importNewShard(instances[n]))

\* Lines 427-444: the shard list the importer writes.
importShards(instances) ==
    LET shardIDs == importShardIDs(instances, Len(instances))
        shards == importNewShards(instances, Len(instances))
    IN  [k \in 1..Len(shards) |->
            [shards[k] EXCEPT !.size = shardIDs[shards[k].shard_id]]]

\* Line 418: the importer starts with a read.
ImportRead ==
    /\ op = "import" /\ pc = "read"
    /\ \/ /\ cluster.exists
          /\ ReadSetsShards(d, cluster)
          /\ pc' = "get"
       \/ /\ pc' = "failed"
          /\ UNCHANGED <<d, history>>
    /\ calls' = Append(calls, Call("Get", 0))
    /\ UNCHANGED <<wait, diags>>
    /\ UNCHANGED <<timeouts, catalogue, requiredFlavor, allFlavors, flavor>>
    /\ UNCHANGED actionErr
    /\ UNCHANGED <<op, step, config, old, cluster, createOpts>>

\* Lines 422-445: the second Get and the shard list built from it.
ImportSetShards ==
    /\ op = "import" /\ pc = "get"
    /\ \/ /\ d' = [d EXCEPT !.shard = importShards(cluster.instances)]
          /\ pc' = "capabilities"
       \/ /\ pc' = "failed"
          /\ UNCHANGED d
    /\ calls' = Append(calls, Call("Get", 0))
    /\ UNCHANGED <<wait, diags>>
    /\ UNCHANGED <<timeouts, catalogue, requiredFlavor, allFlavors, flavor>>
    /\ UNCHANGED actionErr
    /\ UNCHANGED <<op, step, config, old, cluster, createOpts, history>>

\* Lines 447-452: the capabilities are fetched last.
ImportCapabilities ==
    /\ op = "import" /\ pc = "capabilities"
    /\ \E ok \in BOOLEAN : pc' = IF ok THEN "done" ELSE "failed"
    /\ calls' = Append(calls, Call("GetCapabilities", 0))
    /\ UNCHANGED <<wait, diags>>
    /\ UNCHANGED <<timeouts, catalogue, requiredFlavor, allFlavors, flavor>>
    /\ UNCHANGED actionErr
    /\ UNCHANGED <<op, step, d, config, old, cluster, createOpts, history>>

InitImport ==
    /\ op = "import" /\ pc = "read"
    /\ d = [Data("c1", <<>>, "", "") EXCEPT !.name = "", !.datastore = <<>>]
    /\ config = d
    /\ step = NoStep
    /\ old = d
    /\ \E insts \in SeqsUpTo(ShardIds \X ShardAttrs, MaxInstances) :
         cluster = ClusterResp(TRUE, "ACTIVE",
                               [k \in 1..Len(insts) |->
                                   Instance(k, insts[k][1], insts[k][2])],
                               clusterTop(Data("c1", <<>>, "", "cfg1")))
    /\ createOpts = NoOpts
    /\ calls = <<>>
    /\ history = <<>>
    /\ wait = NoWait
    /\ diags = <<>>
    /\ timeouts = DefaultTimeouts
    /\ catalogue = <<>>
    /\ requiredFlavor = NoRequiredFlavor
    /\ allFlavors = <<>>
    /\ flavor = NoFlavor
    /\ actionErr = NoErr

NextImport == ImportRead \/ ImportSetShards \/ ImportCapabilities

SpecImport == InitImport /\ [][NextImport]_vars

\* ---------------------------------------------------------------- update

\* d.HasChange(key) for a top-level attribute.
HasChange(key) == old[key] # config[key]

\* The value d.GetChange gives for shard.<i>.<field> on a list without index i.
ZeroValue(field) ==
    CASE field = "size" -> 0
      [] field = "volume_size" -> 0
      [] field = "flavor_id" -> ""
      [] field = "wal_volume" -> <<>>

ShardValue(shards, i, field) ==
    IF i <= Len(shards) THEN shards[i][field] ELSE ZeroValue(field)

\* d.HasChange("shard.<i>.<field>"): index i of the prior state against index i
\* of the configuration.
ShardHasChange(i, field) ==
    ShardValue(old.shard, i, field) # ShardValue(config.shard, i, field)

\* Mutant: the capabilities block of lines 1079-1084 moved before the
\* wal_disk_autoexpand block of lines 1072-1077.
topLevelNext_CapabilitiesEarly(field) ==
    CASE field = "configuration_id" -> "disk_autoexpand"
      [] field = "disk_autoexpand" -> "capabilities"
      [] field = "capabilities" -> "wal_disk_autoexpand"
      [] field = "wal_disk_autoexpand" -> "cloud_monitoring_enabled"
      [] field = "cloud_monitoring_enabled" -> "shard"

\* Lines 1058-1093: the block that follows the block of a top-level attribute.
topLevelNext(field) ==
    CASE field = "configuration_id" -> "disk_autoexpand"
      [] field = "disk_autoexpand" -> "wal_disk_autoexpand"
      [] field = "wal_disk_autoexpand" -> "capabilities"
      [] field = "capabilities" -> "cloud_monitoring_enabled"
      [] field = "cloud_monitoring_enabled" -> "shard"

\* Mutant: the flavor_id block of lines 1113-1118 moved before the wal_volume
\* block of lines 1106-1111.
shardFieldNext_FlavorEarly(field) ==
    CASE field = "volume_size" -> "flavor_id"
      [] field = "flavor_id" -> "wal_volume"
      [] field = "wal_volume" -> "size"

\* Lines 1099-1120: the block that follows the block of a shard attribute.
shardFieldNext(field) ==
    CASE field = "volume_size" -> "wal_volume"
      [] field = "wal_volume" -> "flavor_id"
      [] field = "flavor_id" -> "size"

\* Mutant: the two comparisons of lines 1122 and 1124 exchanged.
sizeAction_SignFlipped(oldSize, newSize) ==
    IF newSize - oldSize < 0 THEN "Grow"
    ELSE IF newSize - oldSize > 0 THEN "Shrink" ELSE ""

\* Lines 1121-1126: the action a change of size calls for.
sizeAction(oldSize, newSize) ==
    IF newSize - oldSize > 0 THEN "Grow"
    ELSE IF newSize - oldSize < 0 THEN "Shrink" ELSE ""

\* The remote instances of a shard once one of its actions was accepted.
shardAfter(instances, action, shardID, sh) ==
    LET mine(k) == instances[k].ShardID = shardID
        rank(k) == Cardinality({j \in 1..k : mine(j)})
        keep == {k \in 1..Len(instances) : ~mine(k) \/ rank(k) <= sh.size}
        have == Cardinality({k \in 1..Len(instances) : mine(k)})
        maxID == IF instances = <<>> THEN 0
                 ELSE CHOOSE m \in {instances[k].ID : k \in 1..Len(instances)} :
                          \A k \in 1..Len(instances) : instances[k].ID <= m
        wal == IF Len(sh.wal_volume) > 0
               THEN <<[Size |-> sh.wal_volume[1].size]>> ELSE <<>>
    IN  CASE action = "ResizeVolume" ->
               [k \in 1..Len(instances) |->
                   IF mine(k) THEN [instances[k] EXCEPT !.VolumeSize = sh.volume_size]
                   ELSE instances[k]]
          [] action = "ResizeWalVolume" ->
               [k \in 1..Len(instances) |->
                   IF mine(k) THEN [instances[k] EXCEPT !.WalVolume = wal]
                   ELSE instances[k]]
          [] action = "ResizeFlavor" ->
               [k \in 1..Len(instances) |->
                   IF mine(k) THEN [instances[k] EXCEPT !.FlavorID = sh.flavor_id]
                   ELSE instances[k]]
          [] action = "Grow" ->
               instances \o
               [j \in 1..(sh.size - have) |->
                   [ID |-> maxID + j, ShardID |-> shardID, FlavorID |-> sh.flavor_id,
                    VolumeSize |-> sh.volume_size, WalVolume |-> wal]]
          [] action = "Shrink" ->
               [n \in 1..Cardinality(keep) |->
                   instances[CHOOSE k \in keep : Cardinality({j \in keep : j <= k}) = n]]
          [] OTHER -> instances

\* Lines 1172-1177: the sentinels whose message names the cluster only.
ClusterSentinels ==
    {"errDBClusterNotFound", "errDBClusterShardNotFound", "errDBClusterUpdateWait"}

\* Lines 1179-1195: the sentinels of the top-level actions; their message
\* names the cluster.
TopLevelSentinels ==
    {"errDBClusterUpdateDiskAutoexpand", "errDBClusterUpdateDiskAutoexpandExtract",
     "errDBClusterUpdateWalDiskAutoexpand", "errDBClusterUpdateWalDiskAutoexpandExtract",
     "errDBClusterUpdateCloudMonitoring", "errDBClusterActionUpdateConfiguration",
     "errDBClusterActionApplyCapabitilies", "errDBClusterActionApplyCapabilitiesExtract"}

\* Lines 1196-1211: the sentinels of the shard actions; their message names
\* the shard and the cluster.
ShardSentinels ==
    {"errDBClusterActionResizeWalVolumeExtract", "errDBClusterActionGrow",
     "errDBClusterActionShrink", "errDBClusterActionShrinkWrongOptions",
     "errDBClusterActionShrinkInstancesExtract", "errDBClusterActionResizeVolume",
     "errDBClusterActionResizeWalVolume", "errDBClusterActionResizeFlavor"}

\* Lines 1171-1212: the message that takes the place of the sentinel's; the
\* message of an error that is none of the sentinels is kept.
newErrMsg(base) ==
    CASE base = "errDBClusterNotFound" -> "error retrieving"
      [] base = "errDBClusterShardNotFound" -> "unable to extract shard from"
      [] base = "errDBClusterUpdateWait" -> "error waiting to become ready"
      [] base = "errDBClusterUpdateDiskAutoexpand" -> "error updating disk_autoexpand"
      [] base = "errDBClusterUpdateDiskAutoexpandExtract" ->
             "unable to determine disk_autoexpand"
      [] base = "errDBClusterUpdateWalDiskAutoexpand" ->
             "error updating wal_disk_autoexpand"
      [] base = "errDBClusterUpdateWalDiskAutoexpandExtract" ->
             "unable to determine wal_disk_autoexpand"
      [] base = "errDBClusterUpdateCloudMonitoring" ->
             "error updating cloud_monitoring_enabled"
      [] base = "errDBClusterActionUpdateConfiguration" -> "error updating configuration"
      [] base = "errDBClusterActionApplyCapabitilies" -> "error updating capabilities"
      [] base = "errDBClusterActionApplyCapabilitiesExtract" ->
             "error extracting capabilities"
      [] base = "errDBClusterActionResizeWalVolumeExtract" ->
             "unable to determine wal_volume"
      [] base = "errDBClusterActionGrow" -> "error growing shard"
      [] base = "errDBClusterActionShrink" -> "error shrinking shard"
      [] base = "errDBClusterActionShrinkWrongOptions" -> "invalid shrink options"
      [] base = "errDBClusterActionShrinkInstancesExtract" ->
             "error determining instances to shrink shard"
      [] base = "errDBClusterActionResizeVolume" -> "error resizing volume"
      [] base = "errDBClusterActionResizeWalVolume" -> "error resizing wal_volume"
      [] base = "errDBClusterActionResizeFlavor" -> "error changing flavor"
      [] OTHER -> base

\* Mutant: the message of the sentinel takes the place of the whole text.
Replace_WholeText(s, from, to) == <<to>>

\* strings.Replace(s, old, new, 1) on a text in pieces: the first piece that
\* is "from" becomes "to".
Replace(s, from, to) ==
    LET at == {k \in 1..Len(s) : s[k] = from}
    IN  IF at = {} THEN s
        ELSE [k \in 1..Len(s) |->
                 IF k \in at /\ \A j \in at : k <= j THEN to ELSE s[k]]

\* Lines 1165-1216: the diagnostics of a failed action.  The message names
\* the cluster for every sentinel, and the shard for the sentinels of the
\* shard actions only; it takes the place of the sentinel's text in the
\* error's text (line 1214).
databaseClusterWithShardsUpdateProcessError(err, clusterID, shardID) ==
    <<[Diag(newErrMsg(err.base),
            IF err.base \in ClusterSentinels \cup TopLevelSentinels \cup ShardSentinels
            THEN clusterID ELSE "",
            IF err.base \in ShardSentinels THEN shardID ELSE 0,
            err.cause)
       EXCEPT !.msg = Replace(err.msg, err.base, newErrMsg(err.base))]>>

\* The sentinel an update action wraps the error of its remote call in.
actionError(action) ==
    CASE action = "UpdateConfiguration" -> "errDBClusterActionUpdateConfiguration"
      [] action = "UpdateDiskAutoexpand" -> "errDBClusterUpdateDiskAutoexpand"
      [] action = "UpdateWalDiskAutoexpand" -> "errDBClusterUpdateWalDiskAutoexpand"
      [] action = "ApplyCapabilities" -> "errDBClusterActionApplyCapabitilies"
      [] action = "UpdateCloudMonitoring" -> "errDBClusterUpdateCloudMonitoring"
      [] action = "ResizeVolume" -> "errDBClusterActionResizeVolume"
      [] action = "ResizeWalVolume" -> "errDBClusterActionResizeWalVolume"
      [] action = "ResizeFlavor" -> "errDBClusterActionResizeFlavor"
      [] action = "Grow" -> "errDBClusterActionGrow"
      [] action = "Shrink" -> "errDBClusterActionShrink"

\* Lines 1043-1050: the StateChangeConf the update actions wait with; its
\* timeout is that of create.
updateStateConf == StateChangeConf({"BUILD"}, {"ACTIVE"}, "create")

\* Mutant: a cluster being built is taken for ready.
notReady_OnlyError(status) == status = "ERROR"

\* An action is not attempted on a cluster that is not active.
notReady(status) == status # "ACTIVE"

\* The shrink_options of shard block i of the configuration.
shrinkOptions(i) ==
    IF i <= Len(config.shrink_options) THEN config.shrink_options[i] ELSE <<>>

\* Mutant: the options are not checked.
shrinkOptionsWrong_NotChecked(options, delta) == FALSE

\* Supplied shrink options must list as many instances as the shard shrinks by.
shrinkOptionsWrong(options, delta) ==
    options # <<>> /\ Len(options) # delta

\* Mutant: a block does not wait for the action of the block before it.
blockReady_Always == TRUE

\* Lines 1058-1131: the blocks run one after the other; a block starts when
\* the action called before it has returned.
blockReady == ~wait.active

\* The shard the handler is at (shardID of line 1096), 0 before the loop.
atShard == IF step.i \in 1..Len(config.shard) THEN config.shard[step.i].shard_id ELSE 0

\* The position after the block of step.field of shard step.i.
stepAfter ==
    IF step.field = "size" THEN [i |-> step.i + 1, field |-> "volume_size"]
    ELSE [step EXCEPT !.field = shardFieldNext(step.field)]

\* The block after the one the handler is at.
pcAfter == IF pc = "shard" THEN "shard" ELSE topLevelNext(pc)

GoesOn ==
    /\ UNCHANGED actionErr
    /\ pc' = pcAfter
    /\ step' = IF pc = "shard" THEN stepAfter
               ELSE IF pcAfter = "shard" THEN [i |-> 1, field |-> "volume_size"]
               ELSE NoStep

\* Mutant: the error is recorded and the handler goes on with the next block.
onError_GoesOn(next) == next

\* Lines 1061, 1068, 1075, 1082, 1089, 1102, 1109, 1116, 1128: an error ends
\* the handler.
onError(next) == "failed"

\* "return databaseClusterWithShardsUpdateProcessError(err, clusterID, shardID)";
\* step keeps the block that failed.
Returns(err) ==
    /\ diags' = databaseClusterWithShardsUpdateProcessError(err, d.id, atShard)
    /\ actionErr' = err
    /\ pc' = onError(pcAfter)
    /\ step' = IF pc' = "failed"
               THEN (IF pc = "shard" THEN step ELSE [i |-> 0, field |-> pc])
               ELSE IF pc = "shard" THEN stepAfter
               ELSE IF pcAfter = "shard" THEN [i |-> 1, field |-> "volume_size"]
               ELSE NoStep

\* The top-level attributes of the remote cluster once an action was
\* accepted: what the action was called with (top).
topAfter(remote, action, top) ==
    CASE action = "UpdateConfiguration" ->
           [remote EXCEPT !.ConfigurationID = top.ConfigurationID]
      [] action = "UpdateDiskAutoexpand" ->
           [remote EXCEPT !.AutoExpand = top.AutoExpand,
                          !.MaxDiskSize = top.MaxDiskSize]
      [] action = "UpdateWalDiskAutoexpand" ->
           [remote EXCEPT !.WalAutoExpand = top.WalAutoExpand,
                          !.WalMaxDiskSize = top.WalMaxDiskSize]
      [] OTHER -> remote

\* An update action up to the return of its remote call: the shrink options
\* are checked, the cluster is fetched and must be active, the shard must
\* have instances, and the remote call is made; the remote starts on an
\* accepted call at once or a little later.
ActionCall(action) ==
    LET shardID == atShard
        sh == IF shardID # 0 THEN config.shard[step.i] ELSE <<>>
        wrong == /\ action = "Shrink"
                 /\ shrinkOptionsWrong(shrinkOptions(step.i),
                                       ShardValue(old.shard, step.i, "size") - sh.size)
        found == \/ shardID = 0
                 \/ \E k \in 1..Len(cluster.instances) :
                       cluster.instances[k].ShardID = shardID
    IN  \/ /\ wrong
           /\ Returns(Err("errDBClusterActionShrinkWrongOptions", ""))
           /\ UNCHANGED <<calls, cluster, wait>>
        \/ /\ ~wrong
           /\ Returns(Err("errDBClusterNotFound", "get error"))
           /\ UNCHANGED <<calls, cluster, wait>>
        \/ /\ ~wrong /\ notReady(cluster.status)
           /\ Returns(Err("errDBClusterNotReady", ""))
           /\ UNCHANGED <<calls, cluster, wait>>
        \/ /\ ~wrong /\ ~notReady(cluster.status) /\ ~found
           /\ Returns(Err("errDBClusterShardNotFound", ""))
           /\ UNCHANGED <<calls, cluster, wait>>
        \/ /\ ~wrong /\ ~notReady(cluster.status) /\ found
           /\ calls' = Append(calls, Call(action, shardID))
           /\ \/ /\ Returns(Err(actionError(action), "remote error"))
                 /\ UNCHANGED <<cluster, wait>>
              \/ /\ \E status \in {"ACTIVE", "BUILD"} :
                      cluster' = topAfter([cluster EXCEPT
                                              !.status = status,
                                              !.instances = shardAfter(@, action, shardID, sh)],
                                          action, clusterTop(config))
                 /\ wait' = updateStateConf
                 /\ UNCHANGED <<pc, step, diags, actionErr>>

\* The wait of an update action for ACTIVE, one step of it; its error is
\* wrapped in errDBClusterUpdateWait.
UpdateWait ==
    /\ op = "update" /\ wait.active
    /\ WaitStep(wait)
    /\ IF wait'.active THEN UNCHANGED <<pc, step, diags, actionErr>>
       ELSE IF wait'.result = "ok" THEN GoesOn /\ UNCHANGED diags
       ELSE Returns(Err("errDBClusterUpdateWait", wait'.result))
    /\ UNCHANGED <<timeouts, catalogue, requiredFlavor, allFlavors, flavor>>
    /\ UNCHANGED <<op, d, config, old, createOpts, calls, history>>

\* One "if d.HasChange(field)" block of lines 1058-1091: the action is called
\* when the attribute changed, and its error ends the update.
TopLevelBlock(field, action) ==
    /\ op = "update" /\ pc = field /\ blockReady
    /\ \/ /\ ~HasChange(field)
          /\ GoesOn
          /\ UNCHANGED <<calls, cluster, wait, diags>>
       \/ /\ HasChange(field)
          /\ ActionCall(action)
    /\ UNCHANGED <<timeouts, catalogue, requiredFlavor, allFlavors, flavor>>
    /\ UNCHANGED <<op, d, config, old, createOpts, history>>

\* Lines 1058-1063.
UpdateConfiguration == TopLevelBlock("configuration_id", "UpdateConfiguration")

\* Lines 1065-1070.
UpdateDiskAutoexpand == TopLevelBlock("disk_autoexpand", "UpdateDiskAutoexpand")

\* Lines 1072-1077.
UpdateWalDiskAutoexpand == TopLevelBlock("wal_disk_autoexpand", "UpdateWalDiskAutoexpand")

\* Lines 1079-1084.
UpdateApplyCapabilities == TopLevelBlock("capabilities", "ApplyCapabilities")

\* Lines 1086-1091.
UpdateCloudMonitoring == TopLevelBlock("cloud_monitoring_enabled", "UpdateCloudMonitoring")

\* Lines 1093-1094: the loop over the shards ends once every shard was visited.
UpdateShardsDone ==
    /\ op = "update" /\ pc = "shard" /\ blockReady /\ step.i > Len(config.shard)
    /\ pc' = "read"
    /\ step' = NoStep
    /\ UNCHANGED <<wait, diags, actionErr>>
    /\ UNCHANGED <<timeouts, catalogue, requiredFlavor, allFlavors, flavor>>
    /\ UNCHANGED <<op, d, config, old, cluster, createOpts, calls, history>>

\* One "if d.HasChange(p)" block of lines 1099-1118.
ShardBlock(field, action) ==
    /\ op = "update" /\ pc = "shard" /\ blockReady /\ step.i <= Len(config.shard)
    /\ step.field = field
    /\ \/ /\ ~ShardHasChange(step.i, field)
          /\ GoesOn
          /\ UNCHANGED <<calls, cluster, wait, diags>>
       \/ /\ ShardHasChange(step.i, field)
          /\ ActionCall(action)
    /\ UNCHANGED <<timeouts, catalogue, requiredFlavor, allFlavors, flavor>>
    /\ UNCHANGED <<op, d, config, old, createOpts, history>>

\* Lines 1099-1104.
ShardResizeVolume == ShardBlock("volume_size", "ResizeVolume")

\* Lines 1106-1111.
ShardResizeWalVolume == ShardBlock("wal_volume", "ResizeWalVolume")

\* Lines 1113-1118.
ShardResizeFlavor == ShardBlock("flavor_id", "ResizeFlavor")

\* Lines 1120-1130: grow or shrink, by the sign of the change of size.
ShardGrowShrink ==
    /\ op = "update" /\ pc = "shard" /\ blockReady /\ step.i <= Len(config.shard)
    /\ step.field = "size"
    /\ LET action == sizeAction(ShardValue(old.shard, step.i, "size"),
                                config.shard[step.i].size)
       IN  \/ /\ ~ShardHasChange(step.i, "size") \/ action = ""
              /\ GoesOn
              /\ UNCHANGED <<calls, cluster, wait, diags>>
           \/ /\ ShardHasChange(step.i, "size") /\ action # ""
              /\ ActionCall(action)
    /\ UNCHANGED <<timeouts, catalogue, requiredFlavor, allFlavors, flavor>>
    /\ UNCHANGED <<op, d, config, old, createOpts, history>>

\* Mutant: the read is also made after a block has returned an error.
closingReadDue_AfterError == pc = "read" \/ (pc = "failed" /\ actionErr # NoErr)

\* Line 1133 is reached: no block before it has returned.
closingReadDue == pc = "read"

\* Line 1133: the update ends with a read.
UpdateRead ==
    /\ op = "update" /\ closingReadDue
    /\ \/ /\ ReadSetsShards(d, cluster)
          /\ pc' = "done"
          /\ UNCHANGED diags
       \/ /\ pc' = "failed"
          /\ diags' = <<Diag("error retrieving vkcs_db_cluster_with_shards", "", 0,
                             "get error")>>
          /\ UNCHANGED <<d, history>>
    /\ calls' = Append(calls, Call("Get", 0))
    /\ UNCHANGED <<timeouts, catalogue, requiredFlavor, allFlavors, flavor, actionErr>>
    /\ UNCHANGED <<op, step, config, old, cluster, createOpts, wait>>

BaseAttrs == CHOOSE a \in ShardAttrs : a.flavor_id = "f1"

\* What a configuration may ask of a recorded shard.
ShardChanges ==
    [size : 1..MaxSize, volume_size : {10, 20}, flavor_id : {"f1", "f2"},
     wal_volume : {<<>>, <<[size |-> 5, volume_type |-> "ssd"]>>}]

\* The changes of a shard that touch its size only.
SizeChanges ==
    {c \in ShardChanges : /\ c.volume_size = BaseAttrs.volume_size
                          /\ c.flavor_id = BaseAttrs.flavor_id
                          /\ c.wal_volume = BaseAttrs.wal_volume}

\* The top-level attributes a configuration may ask for, against a recorded
\* state with configuration "cfg1" and nothing else set.
TopLevelConfigs ==
    { [Data("c1", <<>>, "", c) EXCEPT
          !.disk_autoexpand = da, !.wal_disk_autoexpand = wa,
          !.capabilities = caps, !.cloud_monitoring_enabled = mon] :
      c \in {"cfg1", "cfg2"},
      da \in {<<>>, <<[autoexpand |-> TRUE, max_disk_size |-> 100]>>},
      wa \in {<<>>, <<[autoexpand |-> TRUE, max_disk_size |-> 50]>>},
      caps \in {<<>>, <<[name |-> "node_exporter"]>>},
      mon \in BOOLEAN }

\* The configurations that change configuration_id at most.
ConfigurationOnly ==
    {t \in TopLevelConfigs : t = Data("c1", <<>>, "", t.configuration_id)}

\* The shrink options a shard block may carry: none, or up to MaxSize ids.
ShrinkOptionChoices == {[k \in 1..m |-> k] : m \in 0..MaxSize}

NoShrinkOptions(n) == [k \in 1..n |-> <<>>]

\* The updates the runs start from: the recorded sizes, the changes the
\* configuration asks for, the status of the remote cluster, the index of a
\* shard the remote has lost (0: none) and the shrink options.  Every
\* top-level change is run with every change of sizes, every change of the
\* shards with a change of configuration_id, a cluster that is not active or
\* has lost a shard with every change of one shard, and every choice of
\* shrink options with every change of sizes.
UpdateInputs ==
    UNION { UNION {
        [n : {n}, sizes : {sizes}, ch : [1..n -> SizeChanges],
         top : TopLevelConfigs, status : {"ACTIVE"}, lost : {0},
         opts : {NoShrinkOptions(n)}]
        \cup
        [n : {n}, sizes : {sizes}, ch : [1..n -> ShardChanges],
         top : ConfigurationOnly, status : {"ACTIVE"}, lost : {0},
         opts : {NoShrinkOptions(n)}]
        \cup
        [n : {n}, sizes : {sizes}, ch : [1..n -> SizeChanges],
         top : {Data("c1", <<>>, "", "cfg1")}, status : {"ACTIVE"}, lost : {0},
         opts : [1..n -> ShrinkOptionChoices]]
        \cup
        {in \in [n : {n}, sizes : {sizes}, ch : [1..n -> ShardChanges],
                 top : ConfigurationOnly, status : {"ACTIVE", "BUILD", "ERROR"},
                 lost : {0, 1}, opts : {NoShrinkOptions(n)}] :
            n = 1 /\ (in.status # "ACTIVE" \/ in.lost # 0)}
        : sizes \in [1..n -> 1..MaxSize] } : n \in 1..MaxShards }

\* The recorded shards have distinct ids, in descending order; the
\* configuration keeps the ids (shard_id forces a new resource, line 652).
InitUpdate ==
    /\ op = "update" /\ pc = "configuration_id"
    /\ step = NoStep
    /\ \E in \in UpdateInputs :
         /\ old = Data("c1", [k \in 1..in.n |->
                                 Shard(in.n + 1 - k, in.sizes[k], BaseAttrs)],
                       "", "cfg1")
         /\ config = [in.top EXCEPT
                         !.shard = [k \in 1..in.n |->
                                       [old.shard[k] EXCEPT
                                           !.size = in.ch[k].size,
                                           !.volume_size = in.ch[k].volume_size,
                                           !.flavor_id = in.ch[k].flavor_id,
                                           !.wal_volume = in.ch[k].wal_volume]],
                         !.shrink_options = in.opts]
         /\ cluster =
               LET all == createdInstances(clusterInstances(old.shard, ""))
               IN  ClusterResp(TRUE, in.status,
                               SelectSeq(all, LAMBDA x :
                                   in.lost = 0 \/ x.ShardID # old.shard[in.lost].shard_id),
                               clusterTop(old))
    /\ d = config
    /\ createOpts = NoOpts
    /\ calls = <<>>
    /\ history = <<>>
    /\ wait = NoWait
    /\ diags = <<>>
    /\ timeouts = DefaultTimeouts
    /\ catalogue = <<>>
    /\ requiredFlavor = NoRequiredFlavor
    /\ allFlavors = <<>>
    /\ flavor = NoFlavor
    /\ actionErr = NoErr

NextUpdate ==
    \/ UpdateConfiguration \/ UpdateDiskAutoexpand \/ UpdateWalDiskAutoexpand
    \/ UpdateApplyCapabilities \/ UpdateCloudMonitoring
    \/ ShardResizeVolume \/ ShardResizeWalVolume \/ ShardResizeFlavor
    \/ ShardGrowShrink \/ UpdateShardsDone \/ UpdateWait \/ UpdateRead

SpecUpdate == InitUpdate /\ [][NextUpdate]_vars

\* ---------------------------------------------------------------- the diagnostics of an error, by itself

\* Errors that are none of the sentinels.
OtherErrors == {"errDBClusterNotReady", "context canceled"}

\* The texts an error may carry besides the text of the error it wraps.
Details == {"remote error", "timeout"}

\* The errors with the base b: b itself, and errors that wrap b with a detail
\* after its text, before it, between two occurrences of it, or in place of it.
ErrorsOf(b) ==
    {Err(b, "")} \cup
    UNION { { Err(b, c),
              [Err(b, c) EXCEPT !.msg = <<c, b>>],
              [Err(b, c) EXCEPT !.msg = <<b, c, b>>],
              [Err(b, c) EXCEPT !.msg = <<c>>] } : c \in Details }

\* databaseClusterWithShardsUpdateProcessError(err, clusterID, shardID), called
\* as the handler calls it: with the id of d and the shard the handler is at.
ProcessError ==
    /\ op = "processError" /\ pc = "call"
    /\ diags' = databaseClusterWithShardsUpdateProcessError(actionErr, d.id, atShard)
    /\ pc' = "done"
    /\ UNCHANGED <<wait, calls, cluster, actionErr>>
    /\ UNCHANGED <<timeouts, catalogue, requiredFlavor, allFlavors, flavor>>
    /\ UNCHANGED <<op, step, d, config, old, createOpts, history>>

\* An error of a top-level action (no shard) or of an action of shard 2.
InitProcessError ==
    /\ op = "processError" /\ pc = "call"
    /\ d = Data("c1", <<Shard(2, 1, BaseAttrs)>>, "", "cfg1")
    /\ config = d
    /\ old = d
    /\ step \in {NoStep, [i |-> 1, field |-> "size"]}
    /\ actionErr \in UNION { ErrorsOf(b) :
           b \in ClusterSentinels \cup TopLevelSentinels \cup ShardSentinels
                 \cup OtherErrors }
    /\ cluster = ClusterResp(TRUE, "ACTIVE", <<>>, clusterTop(d))
    /\ createOpts = NoOpts
    /\ calls = <<>>
    /\ history = <<>>
    /\ wait = NoWait
    /\ diags = <<>>
    /\ timeouts = DefaultTimeouts
    /\ catalogue = <<>>
    /\ requiredFlavor = NoRequiredFlavor
    /\ allFlavors = <<>>
    /\ flavor = NoFlavor

NextProcessError == ProcessError

SpecProcessError == InitProcessError /\ [][NextProcessError]_vars

\* ---------------------------------------------------------------- the flavor data source

\* The extra specs are listed when the flavor came without them, which may
\* fail ("": it did not; lines 369-373).
ExtraSpecsOutcomes == {"", "extra specs error"}

\* diag.FromErr: no diagnostic for no error.
FromErr(err) == IF err = "" THEN <<>> ELSE <<Diag(err, "", 0, "")>>

\* Lines 352-381, dataSourceComputeFlavorAttributes, after the diagnostics
\* before: the id and the attributes of the flavor are stored first; the
\* extra specs of a flavor that came without them are then listed.
dataSourceComputeFlavorAttributes(f, before) ==
    \E err \in (IF f.ExtraSpecs.nil THEN ExtraSpecsOutcomes ELSE {""}) :
        /\ flavor' = f
        /\ pc' = IF err = "" THEN "done" ELSE "failed"
        /\ diags' = before \o FromErr(err)
        /\ calls' = IF f.ExtraSpecs.nil
                    THEN Append(calls, Call("flavors.ListExtraSpecs", 0))
                    ELSE calls

\* Lines 303-321: the warnings for a minimum set together with the exact value.
flavorWarnings(rf) ==
    (IF rf.HasMinDisk /\ rf.HasDisk
     THEN <<Diag("Don't set min_disk and disk together", "", 0, "")>> ELSE <<>>) \o
    (IF rf.HasMinRAM /\ rf.HasRAM
     THEN <<Diag("Don't set min_ram and ram together", "", 0, "")>> ELSE <<>>)

\* Lines 232-242: with flavor_id set, the flavor of that id is fetched,
\* without its extra specs, and nothing else is looked at.
FlavorGetById ==
    /\ op = "flavor" /\ pc = "list" /\ config.flavor_id # 0
    /\ \/ \E k \in 1..Len(catalogue) :
             /\ catalogue[k].ID = config.flavor_id
             /\ dataSourceComputeFlavorAttributes(
                    [catalogue[k] EXCEPT !.ExtraSpecs = NoExtraSpecs], <<>>)
       \/ /\ ~\E k \in 1..Len(catalogue) : catalogue[k].ID = config.flavor_id
          /\ pc' = "failed"
          /\ diags' = <<Diag("No Flavor found", "", 0, "")>>
          /\ UNCHANGED <<flavor, calls>>
    /\ UNCHANGED <<timeouts, catalogue, requiredFlavor, allFlavors, actionErr, wait>>
    /\ UNCHANGED <<op, step, d, config, old, cluster, createOpts, history>>

\* The request of lines 245-253.
ListCall(listOpts) ==
    [action |-> "flavors.ListDetail", shard |-> 0,
     MinRAM |-> listOpts.MinRAM, MinDisk |-> listOpts.MinDisk]

\* What the remote lists for ListOpts with MinRAM and MinDisk: its flavors
\* with that much RAM and disk at least, in its own order.
listDetail(minRAM, minDisk) ==
    LET enough(f) == f.RAM >= minRAM /\ f.Disk >= minDisk
    IN  SelectSeq(catalogue, enough)

\* Lines 244-262: the query is read from the configuration and the flavors
\* are listed with the minimum RAM and disk.
FlavorList ==
    /\ op = "flavor" /\ pc = "list" /\ config.flavor_id = 0
    /\ requiredFlavor' = NewRequiredFlavorFromResourceData(config)
    /\ \/ /\ allFlavors' = listDetail(requiredFlavor'.MinRAM, requiredFlavor'.MinDisk)
          /\ pc' = "filter"
          /\ UNCHANGED diags
       \/ /\ pc' = "failed"
          /\ \E text \in {"Unable to query VKCS flavors",
                          "Unable to retrieve VKCS flavors"} :
                diags' = <<Diag(text, "", 0, "list error")>>
          /\ UNCHANGED allFlavors
    /\ calls' = Append(calls, ListCall(requiredFlavor'))
    /\ UNCHANGED <<timeouts, catalogue, flavor, actionErr, wait>>
    /\ UNCHANGED <<op, step, d, config, old, cluster, createOpts, history>>

\* Mutant: of the extra specs only their absence is looked at.
matches_NilOnly(f) ==
    /\ ~(requiredFlavor.HasName /\ f.Name # requiredFlavor.Name)
    /\ ~(requiredFlavor.HasRAM /\ f.RAM # requiredFlavor.RAM)
    /\ ~(requiredFlavor.HasVCPUs /\ f.VCPUs # requiredFlavor.VCPUs)
    /\ ~(requiredFlavor.HasDisk /\ f.Disk # requiredFlavor.Disk)
    /\ ~(requiredFlavor.HasSwap /\ f.Swap # requiredFlavor.Swap)
    /\ ~(requiredFlavor.HasRxTxFactor /\ f.RxTxFactor # requiredFlavor.RxTxFactor)
    /\ ~(requiredFlavor.HasExtraSpecs /\ f.ExtraSpecs.nil)

\* Lines 268-297, one pass of FlavorsLoop: no case of the switch skips the
\* flavor, and with extra specs asked for each of them is in the flavor's
\* with an equal value.
matches(f) ==
    /\ ~(requiredFlavor.HasName /\ f.Name # requiredFlavor.Name)
    /\ ~(requiredFlavor.HasRAM /\ f.RAM # requiredFlavor.RAM)
    /\ ~(requiredFlavor.HasVCPUs /\ f.VCPUs # requiredFlavor.VCPUs)
    /\ ~(requiredFlavor.HasDisk /\ f.Disk # requiredFlavor.Disk)
    /\ ~(requiredFlavor.HasSwap /\ f.Swap # requiredFlavor.Swap)
    /\ ~(requiredFlavor.HasRxTxFactor /\ f.RxTxFactor # requiredFlavor.RxTxFactor)
    /\ ~(requiredFlavor.HasExtraSpecs /\ f.ExtraSpecs.nil)
    /\ requiredFlavor.HasExtraSpecs =>
          \A spec \in DOMAIN requiredFlavor.ExtraSpecs :
              /\ spec \in DOMAIN f.ExtraSpecs.specs
              /\ f.ExtraSpecs.specs[spec] = requiredFlavor.ExtraSpecs[spec]

\* Lines 264-301: the listed flavors that fit the exact values asked for.
FlavorFilter ==
    /\ op = "flavor" /\ pc = "filter"
    /\ allFlavors' = SelectSeq(allFlavors, matches)
    /\ pc' = "select"
    /\ UNCHANGED <<timeouts, catalogue, requiredFlavor, flavor, actionErr, wait>>
    /\ UNCHANGED <<op, step, d, config, old, cluster, createOpts, history, calls, diags>>

\* Mutant: the comparison of the disks of line 332 left out.
RECURSIVE resIdx_RamOnly(_, _)
resIdx_RamOnly(flavors, n) ==
    IF n = 0 THEN 1
    ELSE LET r == resIdx_RamOnly(flavors, n - 1)
         IN  IF flavors[n].RAM < flavors[r].RAM THEN n ELSE r

\* Lines 330-337: resIdx after the first n flavors of the loop (indices from 1).
RECURSIVE resIdx(_, _)
resIdx(flavors, n) ==
    IF n = 0 THEN 1
    ELSE LET r == resIdx(flavors, n - 1)
         IN  IF flavors[n].RAM = flavors[r].RAM /\ flavors[n].Disk < flavors[r].Disk
             THEN n
             ELSE IF flavors[n].RAM < flavors[r].RAM THEN n ELSE r

\* Mutant: one of several flavors is taken whatever the query.
severalAllowed_Always(rf) == TRUE

\* Line 330: one of several flavors is taken when min_ram or min_disk is set.
severalAllowed(rf) == rf.HasMinRAM \/ rf.HasMinDisk

\* Lines 303-348: no flavor is an error; of several flavors the one of the
\* loop is taken when min_ram or min_disk is set, and several are an error
\* otherwise; the flavor's attributes and id are stored.
FlavorSelect ==
    /\ op = "flavor" /\ pc = "select"
    /\ IF Len(allFlavors) < 1
       THEN /\ pc' = "failed"
            /\ diags' = flavorWarnings(requiredFlavor) \o
                            <<Diag("Your query returned no results", "", 0, "")>>
            /\ UNCHANGED <<flavor, calls>>
       ELSE IF Len(allFlavors) > 1 /\ severalAllowed(requiredFlavor)
       THEN dataSourceComputeFlavorAttributes(
                allFlavors[resIdx(allFlavors, Len(allFlavors))],
                flavorWarnings(requiredFlavor))
       ELSE IF Len(allFlavors) > 1
       THEN /\ pc' = "failed"
            /\ diags' = <<Diag("Your query returned more than one result", "", 0, "")>>
            /\ UNCHANGED <<flavor, calls>>
       ELSE dataSourceComputeFlavorAttributes(allFlavors[1],
                                              flavorWarnings(requiredFlavor))
    /\ UNCHANGED <<timeouts, catalogue, requiredFlavor, allFlavors, actionErr, wait>>
    /\ UNCHANGED <<op, step, d, config, old, cluster, createOpts, history>>

\* A flavor with one VCPU, a name, no swap and no extra specs.
PlainFlavor(ram, disk) ==
    [Name |-> "a", RAM |-> ram, Disk |-> disk, VCPUs |-> 1, Swap |-> 0,
     RxTxFactor |-> 1, ExtraSpecs |-> NoExtraSpecs]

\* The extra specs a flavor may come with.
ExtraSpecsValues ==
    {"k1" :> "v1", "k1" :> "v2", ("k1" :> "v1") @@ ("k2" :> "w")}

\* The flavors a remote may have: the plain ones, and the smallest of them
\* with more VCPUs, with another name, with swap and another rx/tx factor,
\* and with extra specs.
FlavorValues ==
    {PlainFlavor(ram, disk) : ram \in 1..MaxRAM, disk \in 1..MaxDisk} \cup
    {[PlainFlavor(1, 1) EXCEPT !.VCPUs = MaxVCPUs],
     [PlainFlavor(1, 1) EXCEPT !.Name = "b"],
     [PlainFlavor(1, 1) EXCEPT !.Swap = 1, !.RxTxFactor = 2]} \cup
    {[PlainFlavor(1, 1) EXCEPT !.ExtraSpecs = ExtraSpecsOf(m)] :
        m \in ExtraSpecsValues}

\* The queries of a configuration (0, "" and the empty map: not set): by
\* flavor_id; by VCPUs, exact RAM and disk and minimum RAM and disk; by name,
\* swap, extra specs and minimum RAM; by rx/tx factor and minimum RAM.
Queries ==
    {[NoQuery EXCEPT !.flavor_id = id] : id \in 1..2} \cup
    {[NoQuery EXCEPT !.vcpus = vcpus, !.ram = ram, !.disk = disk,
                     !.min_ram = minRAM, !.min_disk = minDisk] :
        vcpus \in 0..1, ram \in {0, MaxRAM}, disk \in {0, MaxDisk},
        minRAM \in 0..1, minDisk \in 0..1} \cup
    {[NoQuery EXCEPT !.name = name, !.swap = swap, !.extra_specs = es,
                     !.min_ram = minRAM] :
        name \in {"", "a"}, swap \in 0..1,
        es \in {EmptyMap, "k1" :> "v1", ("k1" :> "v1") @@ ("k2" :> "w")},
        minRAM \in 0..1} \cup
    {[NoQuery EXCEPT !.rx_tx_factor = 2, !.min_ram = minRAM] : minRAM \in 0..1}

InitFlavor ==
    /\ op = "flavor" /\ pc = "list"
    /\ \E fs \in SeqsUpTo(FlavorValues, MaxFlavors) :
         catalogue = [k \in 1..Len(fs) |-> Flavor(k, fs[k])]
    /\ config \in Queries
    /\ requiredFlavor = NoRequiredFlavor
    /\ allFlavors = <<>>
    /\ flavor = NoFlavor
    /\ d = Data("", <<>>, "", "")
    /\ old = d
    /\ step = NoStep
    /\ cluster = ClusterResp(FALSE, "", <<>>, clusterTop(d))
    /\ createOpts = NoOpts
    /\ calls = <<>>
    /\ history = <<>>
    /\ wait = NoWait
    /\ diags = <<>>
    /\ timeouts = DefaultTimeouts
    /\ actionErr = NoErr

NextFlavor == FlavorGetById \/ FlavorList \/ FlavorFilter \/ FlavorSelect

SpecFlavor == InitFlavor /\ [][NextFlavor]_vars

\* ---------------------------------------------------------------- all handlers

Init ==
    \/ InitCreate \/ InitRead \/ InitImport \/ InitUpdate \/ InitDelete
    \/ InitProcessError \/ InitFlavor

Next ==
    \/ NextCreate \/ NextRead \/ NextImport \/ NextUpdate \/ NextDelete
    \/ NextProcessError \/ NextFlavor

Spec == Init /\ [][Next]_vars

\* ---------------------------------------------------------------- properties of create

\* The number of instances the shards before shard i ask for.
RECURSIVE Offset(_, _)
Offset(shards, i) == IF i <= 1 THEN 0 ELSE Offset(shards, i - 1) + shards[i - 1].size

\* C1: the create request holds size(S1) + ... + size(Sn) instance descriptors,
\* the descriptors of S1 first, then those of S2, and so on.
C1_InstancesGroupedByShard ==
    createOpts.built =>
        /\ Len(createOpts.Instances) = Offset(config.shard, Len(config.shard) + 1)
        /\ \A i \in 1..Len(config.shard) : \A j \in 1..config.shard[i].size :
              /\ Offset(config.shard, i) + j \in 1..Len(createOpts.Instances)
              /\ createOpts.Instances[Offset(config.shard, i) + j].ShardID = config.shard[i].shard_id

\* A request built from two shards of different ids and different sizes.
C1_Witness ==
    /\ createOpts.built
    /\ Len(config.shard) = 2
    /\ config.shard[1].shard_id # config.shard[2].shard_id
    /\ config.shard[1].size = 2 /\ config.shard[2].size = 1

\* What a shard block asks of each of its instances.
CarriesShard(x, sh, keypair) ==
    /\ x.ShardID = sh.shard_id
    /\ x.FlavorRef = sh.flavor_id
    /\ x.Volume = [Size |-> sh.volume_size, VolumeType |-> sh.volume_type]
    /\ IF Len(sh.wal_volume) > 0
       THEN x.Walvolume = <<[Size |-> sh.wal_volume[1].size,
                             VolumeType |-> sh.wal_volume[1].volume_type]>>
       ELSE x.Walvolume = <<>>
    /\ Len(x.Nics) = Len(sh.network)
    /\ \A k \in 1..Len(sh.network) : x.Nics[k].NetID = sh.network[k].uuid
    /\ x.AvailabilityZone = sh.availability_zone
    /\ x.Keypair = keypair

\* C2: every descriptor of a shard carries the shard's id, flavor, volume, WAL
\* volume, network and availability zone and the cluster's keypair, and the
\* descriptors of one shard are equal.
C2_DescriptorsCarryShard ==
    createOpts.built =>
        \A i \in 1..Len(config.shard) : \A j \in 1..config.shard[i].size :
            /\ Offset(config.shard, i) + j \in 1..Len(createOpts.Instances)
            /\ CarriesShard(createOpts.Instances[Offset(config.shard, i) + j],
                            config.shard[i], config.keypair)
            /\ createOpts.Instances[Offset(config.shard, i) + j]
                  = createOpts.Instances[Offset(config.shard, i) + 1]

\* A request built with a keypair from two shards of two instances each, one
\* with a WAL volume and one without.
C2_Witness ==
    /\ createOpts.built
    /\ config.keypair # ""
    /\ Len(config.shard) = 2
    /\ config.shard[1].size = 2 /\ config.shard[2].size = 2
    /\ Len(config.shard[1].wal_volume) = 0 /\ Len(config.shard[2].wal_volume) > 0
    /\ Len(createOpts.Instances) = 4

\* ---------------------------------------------------------------- properties of read and import

Ids(shards) == [k \in 1..Len(shards) |-> shards[k].shard_id]
InSeq(ids, x) == \E k \in 1..Len(ids) : ids[k] = x
FirstPos(ids, x) == CHOOSE k \in 1..Len(ids) : ids[k] = x /\ \A j \in 1..(k - 1) : ids[j] # x
CountOf(s) ==
    Cardinality({k \in 1..Len(cluster.instances) : cluster.instances[k].ShardID = s})
SizesMatch(shards) ==
    \A k \in 1..Len(shards) : shards[k].size = CountOf(shards[k].shard_id)

\* C3: in every read, the shards present both in the recorded list and in the
\* remote topology are written in the order of the recorded list.
C3_DeclaredOrderKept ==
    \A n \in 1..Len(history) :
        LET raw == Ids(history[n].raw)
            out == Ids(history[n].out)
        IN  \A i, j \in 1..Len(out) :
                (i < j /\ InSeq(raw, out[i]) /\ InSeq(raw, out[j]))
                    => FirstPos(raw, out[i]) < FirstPos(raw, out[j])

\* C4: in every read, a remote shard absent from the recorded list is written
\* after every shard present in it, and the absent ones are written in
\* ascending shard id order.
C4_NewShardsLastAscending ==
    \A n \in 1..Len(history) :
        LET raw == Ids(history[n].raw)
            out == Ids(history[n].out)
        IN  \A i, j \in 1..Len(out) :
                (i < j /\ ~InSeq(raw, out[i]))
                    => (~InSeq(raw, out[j]) /\ out[i] < out[j])

\* A read that wrote a recorded shard followed by two new ones, the recorded
\* one having the largest id.
C4_Witness ==
    \E n \in 1..Len(history) :
        LET raw == Ids(history[n].raw)
            out == Ids(history[n].out)
        IN  /\ Len(out) = 3
            /\ InSeq(raw, out[1]) /\ ~InSeq(raw, out[2]) /\ ~InSeq(raw, out[3])
            /\ out[1] > out[3]

\* C5: every read writes each remote shard id exactly once and nothing else.
C5_ShardSetIsRemoteSet ==
    \A n \in 1..Len(history) :
        LET out == Ids(history[n].out)
        IN  /\ {out[k] : k \in 1..Len(out)} = RemoteShardIds
            /\ \A i, j \in 1..Len(out) : i # j => out[i] # out[j]

\* A read with a recorded shard that is gone remotely, a recorded shard that is
\* still there and a remote shard that was never recorded.
C5_Witness ==
    \E n \in 1..Len(history) :
        LET raw == Ids(history[n].raw)
            out == Ids(history[n].out)
        IN  /\ \E k \in 1..Len(raw) : raw[k] \notin RemoteShardIds
            /\ \E k \in 1..Len(raw) : raw[k] \in RemoteShardIds
            /\ \E k \in 1..Len(out) : ~InSeq(raw, out[k])

\* C25: in every read, a written shard that was recorded before has the
\* availability zone, the network and the volume type of the recorded shard
\* with the same shard id.
C25_OverlayByShardId ==
    \A n \in 1..Len(history) :
        LET raw == history[n].raw
            out == history[n].out
        IN  \A i \in 1..Len(out) :
                InSeq(Ids(raw), out[i].shard_id) =>
                    LET rec == raw[FirstPos(Ids(raw), out[i].shard_id)]
                    IN  /\ out[i].availability_zone = rec.availability_zone
                        /\ out[i].network = rec.network
                        /\ out[i].volume_type = rec.volume_type

\* C29: after a read, name, datastore and configuration_id are the remote
\* cluster's; disk_autoexpand and wal_disk_autoexpand are the remote's flag and
\* size limit when the state had the block before the read, and are still
\* unset when it had none.
C29_AutoexpandOnlyWhenSet ==
    (op = "read" /\ Len(history) >= 1) =>
        /\ d.name = cluster.Name
        /\ d.datastore = <<[type |-> cluster.DataStore.Type,
                            version |-> cluster.DataStore.Version]>>
        /\ d.configuration_id = cluster.ConfigurationID
        /\ d.disk_autoexpand =
              IF old.disk_autoexpand = <<>> THEN <<>>
              ELSE <<[autoexpand |-> cluster.AutoExpand # 0,
                      max_disk_size |-> cluster.MaxDiskSize]>>
        /\ d.wal_disk_autoexpand =
              IF old.wal_disk_autoexpand = <<>> THEN <<>>
              ELSE <<[autoexpand |-> cluster.WalAutoExpand # 0,
                      max_disk_size |-> cluster.WalMaxDiskSize]>>

\* A read of a cluster with the disk's autoexpand on remotely and not set
\* locally, which changed the WAL disk's block, the name and the configuration.
C29_Witness ==
    /\ op = "read" /\ Len(history) >= 1
    /\ old.disk_autoexpand = <<>> /\ cluster.AutoExpand = 1
    /\ old.wal_disk_autoexpand # <<>>
    /\ d.wal_disk_autoexpand # old.wal_disk_autoexpand
    /\ d.name # old.name /\ d.configuration_id # old.configuration_id

\* C6: every shard written by read and by the importer has as its size the
\* number of remote instances tagged with its shard id.
C6_SizeIsInstanceCount ==
    /\ \A n \in 1..Len(history) : SizesMatch(history[n].out)
    /\ op = "import" => SizesMatch(d.shard)

\* An import that went through, of a shard whose instances are not adjacent
\* in the remote list.
C6_Witness ==
    /\ op = "import" /\ pc = "done"
    /\ \E i, j, k \in 1..Len(cluster.instances) :
         /\ i < j /\ j < k
         /\ cluster.instances[i].ShardID = cluster.instances[k].ShardID
         /\ cluster.instances[i].ShardID # cluster.instances[j].ShardID
    /\ \E k \in 1..Len(d.shard) : d.shard[k].size = 2

\* The position of the first remote instance of shard s.
FirstInstance(s) ==
    CHOOSE k \in 1..Len(cluster.instances) :
        /\ cluster.instances[k].ShardID = s
        /\ \A j \in 1..(k - 1) : cluster.instances[j].ShardID # s

\* C30: the shard list the importer writes has each remote shard id once, in
\* the order in which the ids first occur in the remote instance list; each
\* shard has as its size the number of remote instances of its id, the volume
\* type "imported", and the flavor, volume size, WAL volume and instance of
\* the first remote instance of its id.
C30_ImportedShards ==
    (op = "import" /\ pc \in {"capabilities", "done"}) =>
        LET ids == Ids(d.shard)
        IN  /\ {ids[k] : k \in 1..Len(ids)} = RemoteShardIds
            /\ \A i, j \in 1..Len(ids) :
                  i < j => FirstInstance(ids[i]) < FirstInstance(ids[j])
            /\ \A k \in 1..Len(ids) :
                  LET sh == d.shard[k]
                      first == cluster.instances[FirstInstance(sh.shard_id)]
                  IN  /\ sh.size = CountOf(sh.shard_id)
                      /\ sh.volume_type = "imported"
                      /\ sh.flavor_id = first.FlavorID
                      /\ sh.volume_size = first.VolumeSize
                      /\ Len(sh.wal_volume) = Len(first.WalVolume)
                      /\ Len(sh.wal_volume) > 0 =>
                            sh.wal_volume[1].size = first.WalVolume[1].Size
                      /\ sh.instances = <<[instance_id |-> first.ID]>>

\* An import of two shards, the one with the larger id listed first, whose
\* second instance is listed last and differs from its first in flavor.
C30_Witness ==
    /\ op = "import" /\ pc = "done"
    /\ Len(cluster.instances) = 3 /\ Len(d.shard) = 2
    /\ cluster.instances[1].ShardID > cluster.instances[2].ShardID
    /\ cluster.instances[3].ShardID = cluster.instances[1].ShardID
    /\ cluster.instances[3].FlavorID # cluster.instances[1].FlavorID
    /\ d.shard[1].shard_id = cluster.instances[1].ShardID
    /\ d.shard[1].size = 2

\* C7: a read that follows a read of the same remote topology writes the
\* shard list the first one wrote.
C7_ReadIdempotent ==
    \A n \in 2..Len(history) : history[n].out = history[n - 1].out
\* ---------------------------------------------------------------- properties of update

IsPrefix(a, b) == Len(a) <= Len(b) /\ SubSeq(b, 1, Len(a)) = a

TopLevelFields ==
    <<"configuration_id", "disk_autoexpand", "wal_disk_autoexpand",
      "capabilities", "cloud_monitoring_enabled">>

TopLevelActions ==
    <<"UpdateConfiguration", "UpdateDiskAutoexpand", "UpdateWalDiskAutoexpand",
      "ApplyCapabilities", "UpdateCloudMonitoring">>

IsTopLevel(c) == \E r \in 1..Len(TopLevelActions) : c.action = TopLevelActions[r]
IsShardLevel(c) == c.shard # 0

\* The update actions issued so far: the calls but the Get of the closing read.
IsAction(c) == c.action # "Get"
Issued == SelectSeq(calls, IsAction)

\* The top-level actions the claim calls for: one per changed attribute, in
\* the order configuration, disk autoexpand, WAL autoexpand, capabilities,
\* monitoring.
TopLevelPlan ==
    LET changed(r) == old[TopLevelFields[r]] # config[TopLevelFields[r]]
        ranks == SelectSeq(<<1, 2, 3, 4, 5>>, changed)
    IN  [k \in 1..Len(ranks) |-> Call(TopLevelActions[ranks[k]], 0)]

\* The actions the claim calls for on shard i: resize volume, resize WAL
\* volume, resize flavor, grow or shrink, each if its attribute changed.
ShardPlanOf(i) ==
    LET was == old.shard[i]
        now == config.shard[i]
        id == now.shard_id
    IN  (IF was.volume_size # now.volume_size THEN <<Call("ResizeVolume", id)>> ELSE <<>>)
        \o (IF was.wal_volume # now.wal_volume THEN <<Call("ResizeWalVolume", id)>> ELSE <<>>)
        \o (IF was.flavor_id # now.flavor_id THEN <<Call("ResizeFlavor", id)>> ELSE <<>>)
        \o (IF now.size > was.size THEN <<Call("Grow", id)>>
            ELSE IF now.size < was.size THEN <<Call("Shrink", id)>> ELSE <<>>)

RECURSIVE ShardPlanFrom(_)
ShardPlanFrom(i) ==
    IF i > Len(config.shard) THEN <<>> ELSE ShardPlanOf(i) \o ShardPlanFrom(i + 1)

\* C8: the top-level actions are issued in the order configuration, disk
\* autoexpand, WAL autoexpand, capabilities, monitoring, each only if its
\* attribute changed, and all of them before any action on a shard.  The cycle
\* ends at the first failing action, so what is issued is a prefix of that
\* list, and the whole list once a shard action or the closing read is reached.
C8_TopLevelOrder ==
    op = "update" =>
        LET top == SelectSeq(Issued, IsTopLevel)
        IN  /\ IsPrefix(top, TopLevelPlan)
            /\ \A p, q \in 1..Len(Issued) :
                  (p < q /\ IsTopLevel(Issued[q])) => IsTopLevel(Issued[p])
            /\ ((\E p \in 1..Len(Issued) : IsShardLevel(Issued[p]))
                    \/ pc \in {"shard", "read", "done"})
                  => top = TopLevelPlan

\* An update that went through with configuration_id and capabilities changed
\* and one shard grown: configuration, capabilities, grow.
C8_Witness ==
    /\ op = "update" /\ pc = "done"
    /\ \E id \in ShardIds :
         Issued = <<Call("UpdateConfiguration", 0), Call("ApplyCapabilities", 0),
                    Call("Grow", id)>>

\* C9: the actions on shards are issued shard by shard in the declared order
\* and, within a shard, in the order resize volume, resize WAL volume, resize
\* flavor, grow or shrink, each only if its attribute changed for that shard.
\* What is issued is a prefix of that list, and the whole list once the
\* closing read is reached.
C9_ShardOrder ==
    op = "update" =>
        LET sh == SelectSeq(Issued, IsShardLevel)
        IN  /\ IsPrefix(sh, ShardPlanFrom(1))
            /\ pc \in {"read", "done"} => sh = ShardPlanFrom(1)

\* An update that went through with all four actions on the first of two
\* shards and two of them on the second.
C9_Witness ==
    /\ op = "update" /\ pc = "done"
    /\ Len(config.shard) = 2
    /\ LET a == config.shard[1].shard_id
           b == config.shard[2].shard_id
       IN  /\ a > b
           /\ SelectSeq(Issued, IsShardLevel) =
                 <<Call("ResizeVolume", a), Call("ResizeWalVolume", a),
                   Call("ResizeFlavor", a), Call("Shrink", a),
                   Call("ResizeWalVolume", b), Call("Grow", b)>>

CountCalls(action, id) ==
    Cardinality({p \in 1..Len(calls) : calls[p] = Call(action, id)})

\* The shard loop is past shard i.
PastShard(i) ==
    pc \in {"read", "done"} \/ (pc = "shard" /\ step.i > i)

\* C10: for each shard at most one of Grow and Shrink is issued, and at most
\* once: none when the size is unchanged, no Shrink and one Grow when it
\* increased, no Grow and one Shrink when it decreased (the one action being
\* there once the cycle is past the shard).
C10_OneSizeAction ==
    op = "update" =>
        \A i \in 1..Len(config.shard) :
            LET id == config.shard[i].shard_id
                delta == config.shard[i].size - old.shard[i].size
                grows == CountCalls("Grow", id)
                shrinks == CountCalls("Shrink", id)
            IN  /\ grows + shrinks <= 1
                /\ delta = 0 => grows + shrinks = 0
                /\ delta > 0 => (shrinks = 0 /\ (PastShard(i) => grows = 1))
                /\ delta < 0 => (grows = 0 /\ (PastShard(i) => shrinks = 1))

\* An update that went through on two shards, one grown and one shrunk.
C10_Witness ==
    /\ op = "update" /\ pc = "done"
    /\ Len(config.shard) = 2
    /\ config.shard[1].size > old.shard[1].size
    /\ config.shard[2].size < old.shard[2].size
    /\ CountCalls("Grow", config.shard[1].shard_id) = 1
    /\ CountCalls("Shrink", config.shard[2].shard_id) = 1
\* ---------------------------------------------------------------- properties of the waits

\* The statuses the wait saw before its last refresh were all pending.
EarlierPending ==
    \A n \in 1..(Len(wait.seen) - 1) : wait.seen[n] \in wait.pending

LastSeen == wait.seen[Len(wait.seen)]

\* C15: in a wait of create or update (pending BUILD, target ACTIVE) the
\* first refresh that finds a status which is neither pending nor the target
\* ends the wait with the unexpected-state error: it is the last refresh of
\* the wait, and the handler has failed without waiting for the timeout.
C15_PollerFailFast ==
    (op \in {"create", "update"} /\ wait.pending = {"BUILD"}) =>
        \A n \in 1..Len(wait.seen) :
            wait.seen[n] \notin {"BUILD", "ACTIVE", FetchError} =>
                /\ n = Len(wait.seen)
                /\ ~wait.active
                /\ wait.result = "unexpected"
                /\ pc = "failed"

\* Create's wait found ERROR at its first refresh and ended there.
C15_Witness ==
    /\ op = "create" /\ pc = "failed"
    /\ wait.seen = <<"ERROR">>
    /\ wait.result = "unexpected"
    /\ Len(wait.seen) < MaxPolls

\* The outcome of a wait that has returned is the one its refreshes call for.
WaitOutcomeOk ==
    /\ wait.result # "" => ~wait.active
    /\ (~wait.active /\ wait.budget # "") =>
           wait.result \in {"ok", "timeout", "unexpected", "error", "cancelled"}
    /\ wait.result = "ok" =>
           (wait.seen # <<>> /\ LastSeen \in wait.target /\ EarlierPending)
    /\ wait.result = "timeout" =>
           (wait.elapsed >= wait.timeout
            /\ \A n \in 1..Len(wait.seen) : wait.seen[n] \in wait.pending)
    /\ wait.result = "unexpected" =>
           (wait.seen # <<>> /\ EarlierPending
            /\ LastSeen \notin wait.pending \cup wait.target \cup {FetchError})
    /\ wait.result = "error" =>
           (wait.seen # <<>> /\ LastSeen = FetchError /\ EarlierPending)

\* C16: every wait returns, with one outcome: success at the first refresh
\* that finds the target, the timeout error when the status stayed pending
\* until the timeout, the unexpected-state error, or the refresh's error
\* (or the caller's cancellation).  It never makes more refreshes than the
\* timeout allows, also when the remote status stays pending for ever.
C16_WaitReturns ==
    /\ [](Len(wait.seen) <= MaxPolls /\ WaitOutcomeOk)
    /\ (wait.active ~> ~wait.active)

\* The remote status stayed BUILD and create's wait ended with the timeout.
C16_Witness ==
    /\ op = "create"
    /\ wait.result = "timeout"
    /\ wait.seen = [n \in 1..MaxPolls |-> "BUILD"]

\* C21: the first refresh of a wait is made when the delay has elapsed since
\* the wait started and not before; no wait runs past its timeout; a wait
\* whose timeout is shorter than the delay, unless the caller cancels it, ends
\* with the timeout error after one refresh at most.
C21_DelayBeforeRefresh ==
    wait.budget # "" =>
        /\ wait.seen # <<>> => wait.elapsed - Len(wait.seen) >= wait.delay
        /\ wait.elapsed <= wait.timeout
        /\ (wait.timeout < wait.delay /\ ~wait.active /\ wait.result # "cancelled") =>
               (wait.result = "timeout" /\ Len(wait.seen) <= 1)

\* Create's wait, its timeout shorter than the delay, ended with the timeout
\* error without a refresh, and create failed.
C21_Witness ==
    /\ op = "create" /\ pc = "failed"
    /\ wait.timeout < wait.delay
    /\ wait.result = "timeout"
    /\ wait.seen = <<>>
    /\ wait.elapsed = wait.timeout

\* ---------------------------------------------------------------- properties of delete

\* C17: once the remote delete was accepted, delete returns success only
\* after a refresh found DELETED, every refresh before it having found ACTIVE
\* or DELETING; a refresh that finds anything else, or the timeout, makes
\* delete return an error.
C17_DeleteStates ==
    (op = "delete" /\ wait.budget = "delete") =>
        /\ pc = "done" =>
              /\ wait.seen # <<>> /\ LastSeen = "DELETED"
              /\ \A n \in 1..(Len(wait.seen) - 1) :
                    wait.seen[n] \in {"ACTIVE", "DELETING"}
              /\ diags = <<>>
        /\ \A n \in 1..Len(wait.seen) :
              wait.seen[n] \notin {"ACTIVE", "DELETING", "DELETED"} =>
                  (n = Len(wait.seen) /\ pc = "failed" /\ diags # <<>>)
        /\ wait.result = "timeout" => (pc = "failed" /\ diags # <<>>)

\* Delete returned success after DELETING and then DELETED were found.
C17_Witness ==
    /\ op = "delete" /\ pc = "done"
    /\ wait.seen = <<"DELETING", "DELETED">>
    /\ diags = <<>>

\* ---------------------------------------------------------------- properties of a failed update

\* The actions the update calls for, in the order of the blocks.
FullPlan == TopLevelPlan \o ShardPlanFrom(1)

ShardFields == <<"volume_size", "wal_volume", "flavor_id", "size">>

RankIn(fields, field) == CHOOSE r \in 1..Len(fields) : fields[r] = field

\* The planned actions of the blocks up to and with the block at position p:
\* a top-level block (p.i = 0), a block of shard p.i, or the closing read.
ShardPlanUpTo(i, n) ==
    LET was == old.shard[i]
        now == config.shard[i]
        id == now.shard_id
        part(r, changed, call) == IF r <= n /\ changed THEN <<call>> ELSE <<>>
    IN  part(1, was.volume_size # now.volume_size, Call("ResizeVolume", id))
        \o part(2, was.wal_volume # now.wal_volume, Call("ResizeWalVolume", id))
        \o part(3, was.flavor_id # now.flavor_id, Call("ResizeFlavor", id))
        \o part(4, now.size > was.size, Call("Grow", id))
        \o part(4, now.size < was.size, Call("Shrink", id))

RECURSIVE ShardPlansBefore(_)
ShardPlansBefore(i) ==
    IF i <= 1 THEN <<>> ELSE ShardPlansBefore(i - 1) \o ShardPlanOf(i - 1)

PlanThrough(p) ==
    IF p = NoStep THEN FullPlan
    ELSE IF p.i = 0
    THEN LET upTo(r) == r <= RankIn(TopLevelFields, p.field)
                        /\ old[TopLevelFields[r]] # config[TopLevelFields[r]]
             ranks == SelectSeq(<<1, 2, 3, 4, 5>>, upTo)
         IN  [k \in 1..Len(ranks) |-> Call(TopLevelActions[ranks[k]], 0)]
    ELSE TopLevelPlan \o ShardPlansBefore(p.i)
         \o ShardPlanUpTo(p.i, RankIn(ShardFields, p.field))

\* C11: an update that has a diagnostic has returned at the block that
\* failed: the actions issued are the planned actions up to that block, the
\* failing one being the last issued or not issued at all; when an action
\* failed nothing else was called, to undo them or to read, and no call follows.
C11_HaltsAtFirstFailure ==
    /\ []((op = "update" /\ diags # <<>>) =>
             /\ pc = "failed"
             /\ IsPrefix(Issued, PlanThrough(step))
             /\ Len(Issued) >= Len(PlanThrough(step)) - 1
             /\ step # NoStep => calls = Issued)
    /\ [][(op = "update" /\ diags # <<>>) => (calls' = calls /\ diags' = diags)]_vars

\* The first of three planned actions failed and the other two were not issued.
C11_Witness ==
    /\ op = "update" /\ pc = "failed"
    /\ Len(FullPlan) >= 3
    /\ Issued = <<FullPlan[1]>>
    /\ diags = <<Diag("error updating configuration", "c1", 0, "remote error")>>

\* C12: a remote call of an update action is issued only when no wait is
\* going on and the wait of the action before it has ended with success; a
\* wait that is going on is that of the last action issued.
C12_OneActionInFlight ==
    /\ []((op = "update" /\ wait.active) => Issued # <<>>)
    /\ [][(op = "update" /\ Len(Issued') > Len(Issued)) =>
              /\ ~wait.active
              /\ Issued # <<>> => wait.result = "ok"]_vars

\* Two actions went through, the wait of the second having polled twice.
C12_Witness ==
    /\ op = "update" /\ pc = "done"
    /\ Len(Issued) = 2
    /\ wait.seen = <<"BUILD", "ACTIVE">>
    /\ wait.result = "ok"

\* The block the handler is at has its attribute changed.
BlockChanged ==
    \/ \E r \in 1..Len(TopLevelFields) : pc = TopLevelFields[r] /\ HasChange(pc)
    \/ /\ pc = "shard" /\ step.i <= Len(config.shard)
       /\ ShardHasChange(step.i, step.field)

\* C14: an update action's remote call is issued on an active cluster only;
\* an action attempted on a cluster that is not active issues no call and
\* ends the update with an error, the not-ready error unless the shrink
\* options or the fetch of the cluster failed first.
C14_NotReadyRejected ==
    /\ [][(op = "update" /\ Len(Issued') > Len(Issued)) => cluster.status = "ACTIVE"]_vars
    /\ [][(op = "update" /\ ~wait.active /\ BlockChanged /\ cluster.status # "ACTIVE") =>
              /\ calls' = calls
              /\ pc' = "failed"
              /\ Len(diags') = 1
              /\ diags'[1].text \in {"errDBClusterNotReady", "error retrieving",
                                     "invalid shrink options"}]_vars

\* The first action of an update of a cluster being built was rejected.
C14_Witness ==
    /\ op = "update" /\ pc = "failed"
    /\ cluster.status = "BUILD"
    /\ calls = <<>>
    /\ diags = <<Diag("errDBClusterNotReady", "", 0, "")>>

NamesAction(text) ==
    text \notin {"error retrieving", "unable to extract shard from",
                 "error waiting to become ready"}

\* C13: a failed action leaves one diagnostic, which tells the action that
\* failed, names the cluster and, when a shard action failed, names the shard;
\* stated for the shard actions and for the errors that are or wrap a
\* sentinel of lines 1172-1211.
C13_DiagnosticNamesAll ==
    (/\ op = "update" /\ pc = "failed" /\ step.i > 0
     /\ diags # <<>> /\ diags[1].text # "errDBClusterNotReady") =>
        /\ Len(diags) = 1
        /\ diags[1].cluster = config.id
        /\ NamesAction(diags[1].text)
        /\ diags[1].shard = config.shard[step.i].shard_id

\* ---------------------------------------------------------------- properties of create and read together

\* C18: a create whose configuration has a shard of size below 1 makes no
\* remote call, and ends with an error once it is past building the request.
\* (datastore, volume_size and volume_type are required by the schema, lines
\* 476-505 and 680-694, and are always set when create runs.)
C18_ValidatesBeforeRemote ==
    (op = "create" /\ \E i \in 1..Len(config.shard) : config.shard[i].size < 1) =>
        /\ calls = <<>>
        /\ pc # "build" => (pc = "failed" /\ diags # <<>>)

DistinctIds(shards) ==
    \A i, j \in 1..Len(shards) : shards[i].shard_id = shards[j].shard_id => i = j

\* C20: a create of shards with distinct ids that went through has recorded
\* the declared shard ids, each once and with its declared size.
C20_CreateReadRoundTrip ==
    (op = "create" /\ pc = "done" /\ DistinctIds(config.shard)) =>
        /\ Len(d.shard) = Len(config.shard)
        /\ \A i \in 1..Len(config.shard) :
              \E j \in 1..Len(d.shard) :
                 /\ d.shard[j].shard_id = config.shard[i].shard_id
                 /\ d.shard[j].size = config.shard[i].size

\* ---------------------------------------------------------------- properties of cancellation and of the timeouts

\* C22: when the caller cancels while an update action waits, the wait is
\* over and the update has failed with the diagnostic of that wait; the calls
\* issued are the planned actions up to the one that was waiting, none to undo
\* it, and from then on nothing is called, polled or changed remotely.
C22_CancelStopsUpdate ==
    /\ []((op = "update" /\ wait.result = "cancelled") =>
             /\ ~wait.active
             /\ pc = "failed"
             /\ actionErr = Err("errDBClusterUpdateWait", "cancelled")
             /\ Len(diags) = 1
             /\ calls = Issued /\ Issued # <<>> /\ IsPrefix(Issued, FullPlan))
    /\ [][(op = "update" /\ wait.result = "cancelled") =>
             (calls' = calls /\ wait' = wait /\ cluster' = cluster)]_vars

\* The first of two planned actions was cancelled after a refresh that found
\* the cluster being built, and the second was not issued.
C22_Witness ==
    /\ op = "update" /\ pc = "failed"
    /\ wait.result = "cancelled"
    /\ wait.seen = <<"BUILD">>
    /\ Len(FullPlan) >= 2
    /\ calls = <<FullPlan[1]>>

\* C23: a wait runs on the timeout of the operation it belongs to, that of
\* create, of delete or of update, and its time is counted from its own start.
C23_OwnTimeoutBudget ==
    wait.budget # "" =>
        /\ wait.budget = op
        /\ wait.elapsed <= wait.delay + Len(wait.seen)

\* ---------------------------------------------------------------- properties of the id and of the closing read

\* C26: create stores the id after clusters.Create succeeded, the wait found
\* the cluster active and the configuration group, when one is set, was
\* attached, right before its read; a create that failed in the wait or in the
\* attach has stored no id, though the remote cluster exists.
C26_IdStoredLast ==
    op = "create" =>
        /\ d.id # "" =>
              /\ cluster.exists /\ calls[1] = Call("Create", 0)
              /\ wait.result = "ok"
              /\ config.configuration_id # "" =>
                    calls[2] = Call("AttachConfigurationGroup", 0)
              /\ calls[Len(calls)] = Call("Get", 0)
              /\ pc \in {"done", "failed"}
        /\ (pc = "failed" /\ calls # <<>> /\ calls[Len(calls)] # Call("Get", 0)) =>
              d.id = ""

\* The attach failed on a cluster that was created and is active: create has
\* failed and no id is stored.
C26_Witness ==
    /\ op = "create" /\ pc = "failed"
    /\ cluster.exists /\ cluster.status = "ACTIVE"
    /\ calls = <<Call("Create", 0), Call("AttachConfigurationGroup", 0)>>
    /\ d.id = ""

\* C28: an update reads once at most, in its last step, after every planned
\* action was issued and none failed; an update whose action failed has not
\* read, and the attributes it holds are those it was called with.
C28_ReadsOnceAtTheEnd ==
    op = "update" =>
        /\ Len(history) <= 1 /\ CountCalls("Get", 0) <= 1
        /\ CountCalls("Get", 0) = 1 =>
              /\ calls = Append(FullPlan, Call("Get", 0))
              /\ actionErr = NoErr /\ wait.result \in {"", "ok"}
              /\ pc \in {"done", "failed"}
        /\ history # <<>> => (pc = "done" /\ CountCalls("Get", 0) = 1)
        /\ actionErr # NoErr =>
              (pc = "failed" /\ history = <<>> /\ calls = Issued /\ d = config)

\* The second of two actions failed in its wait and the update did not read.
C28_Witness ==
    /\ op = "update" /\ pc = "failed"
    /\ Len(Issued) = 2
    /\ actionErr = Err("errDBClusterUpdateWait", "unexpected")
    /\ history = <<>>
    /\ calls = Issued

\* ---------------------------------------------------------------- properties of the diagnostics

\* The first place of the text b in the text m (0: none).
FirstAt(m, b) ==
    IF \E k \in 1..Len(m) : m[k] = b
    THEN CHOOSE k \in 1..Len(m) : m[k] = b /\ \A j \in 1..(k - 1) : m[j] # b
    ELSE 0

HasExtraSpecsAsked(f) ==
    DOMAIN config.extra_specs # {} =>
        /\ ~f.ExtraSpecs.nil
        /\ \A key \in DOMAIN config.extra_specs :
              /\ key \in DOMAIN f.ExtraSpecs.specs
              /\ f.ExtraSpecs.specs[key] = config.extra_specs[key]

\* Flavor f has the exact values the configuration asks for.
FitsExact(f) ==
    /\ config.name # "" => f.Name = config.name
    /\ config.ram # 0 => f.RAM = config.ram
    /\ config.vcpus # 0 => f.VCPUs = config.vcpus
    /\ config.disk # 0 => f.Disk = config.disk
    /\ config.swap # 0 => f.Swap = config.swap
    /\ config.rx_tx_factor # 0 => f.RxTxFactor = config.rx_tx_factor
    /\ HasExtraSpecsAsked(f)

\* The flavors of the remote that fit the query: the exact values asked for,
\* and at least the minimum of RAM and disk where the exact value is not set.
Matches ==
    {catalogue[k] : k \in {j \in 1..Len(catalogue) :
        /\ FitsExact(catalogue[j])
        /\ config.ram = 0 => catalogue[j].RAM >= config.min_ram
        /\ config.disk = 0 => catalogue[j].Disk >= config.min_disk}}

\* The remote refused to list its flavors, or the list could not be read.
ListFailed ==
    \E i \in 1..Len(diags) :
        diags[i].text \in {"Unable to query VKCS flavors", "Unable to retrieve VKCS flavors"}

\* The data source has ended a lookup by filters whose listing went through.
LookupEnded ==
    /\ op = "flavor" /\ pc \in {"done", "failed"}
    /\ config.flavor_id = 0 /\ ~ListFailed

HasDiag(text) == \E i \in 1..Len(diags) : diags[i].text = text

\* C24: with min_ram or min_disk set and several flavors fitting the query,
\* the data source ends with one of them selected: none of them has less RAM,
\* and none of those with as much RAM has less disk.
C24_LeastRamThenDisk ==
    (/\ LookupEnded
     /\ config.min_ram # 0 \/ config.min_disk # 0
     /\ Cardinality(Matches) > 1) =>
        /\ flavor \in Matches
        /\ \A f \in Matches :
              /\ flavor.RAM <= f.RAM
              /\ f.RAM = flavor.RAM => flavor.Disk <= f.Disk

\* The flavor with the least RAM and disk was listed last, after one with as
\* little RAM and more disk.
C24_Witness ==
    /\ op = "flavor" /\ pc = "done"
    /\ config.min_ram # 0 /\ config.ram = 0
    /\ Len(catalogue) = 3 /\ Cardinality(Matches) = 3
    /\ catalogue[1].RAM > catalogue[2].RAM
    /\ catalogue[3].RAM = catalogue[2].RAM /\ catalogue[3].Disk < catalogue[2].Disk
    /\ flavor = catalogue[3]

\* C31: a flavor stored by a lookup by filters has the name, RAM, VCPUs, disk
\* and swap asked for, where one is asked for, and with extra specs asked for
\* it has extra specs, each key asked for being among them with the value
\* asked for.
C31_ExactFiltersHold ==
    (op = "flavor" /\ config.flavor_id = 0 /\ flavor # NoFlavor) =>
        /\ config.name # "" => flavor.Name = config.name
        /\ config.ram # 0 => flavor.RAM = config.ram
        /\ config.vcpus # 0 => flavor.VCPUs = config.vcpus
        /\ config.disk # 0 => flavor.Disk = config.disk
        /\ config.swap # 0 => flavor.Swap = config.swap
        /\ DOMAIN config.extra_specs # {} =>
              /\ ~flavor.ExtraSpecs.nil
              /\ \A key \in DOMAIN config.extra_specs :
                    /\ key \in DOMAIN flavor.ExtraSpecs.specs
                    /\ flavor.ExtraSpecs.specs[key] = config.extra_specs[key]

\* A lookup by name and extra specs that stored the third flavor listed, the
\* first having no extra specs and the second another value for the key.
C31_Witness ==
    /\ op = "flavor" /\ pc = "done"
    /\ config.name = "a" /\ DOMAIN config.extra_specs = {"k1"}
    /\ Len(catalogue) = 3
    /\ catalogue[1].ExtraSpecs.nil
    /\ ~catalogue[2].ExtraSpecs.nil /\ DOMAIN catalogue[2].ExtraSpecs.specs = {"k1"}
    /\ catalogue[2].ExtraSpecs.specs["k1"] # config.extra_specs["k1"]
    /\ flavor = catalogue[3]

\* C32: a lookup by filters that finds no flavor fitting the query ends with
\* the "no results" error, one that finds several with neither min_ram nor
\* min_disk set ends with the "more than one result" error, and neither
\* stores an id or an attribute; a stored flavor fits the query, alone or
\* with min_ram or min_disk set.
C32_IdOnlyForOneFlavor ==
    LookupEnded =>
        /\ Matches = {} =>
              /\ pc = "failed" /\ HasDiag("Your query returned no results")
              /\ flavor = NoFlavor
        /\ (Cardinality(Matches) > 1 /\ config.min_ram = 0 /\ config.min_disk = 0) =>
              /\ pc = "failed" /\ HasDiag("Your query returned more than one result")
              /\ flavor = NoFlavor
        /\ flavor # NoFlavor =>
              /\ flavor \in Matches
              /\ Cardinality(Matches) = 1 \/ config.min_ram # 0 \/ config.min_disk # 0

\* Two of three flavors have the swap asked for, no minimum is set, and the
\* lookup failed without an id.
C32_Witness ==
    /\ LookupEnded /\ pc = "failed"
    /\ config.swap # 0 /\ config.min_ram = 0
    /\ Len(catalogue) = 3 /\ Cardinality(Matches) = 2
    /\ HasDiag("Your query returned more than one result")
    /\ flavor.ID = 0

\* The request for the list of flavors, once made.
ListRequests ==
    {calls[i] : i \in {j \in 1..Len(calls) : calls[j].action = "flavors.ListDetail"}}

\* C33: the list request asks for the exact ram as the minimum RAM when ram
\* is set, and for min_ram otherwise, and likewise for disk; a lookup whose
\* listing went through ends with the warning about min_ram when min_ram and
\* ram are both set, and with the one about min_disk when min_disk and disk
\* are, whether a flavor was stored or not.
C33_ExactReplacesMinimum ==
    op = "flavor" =>
        /\ \A c \in ListRequests :
              /\ c.MinRAM = IF config.ram # 0 THEN config.ram ELSE config.min_ram
              /\ c.MinDisk = IF config.disk # 0 THEN config.disk ELSE config.min_disk
        /\ (LookupEnded /\ config.min_ram # 0 /\ config.ram # 0) =>
              HasDiag("Don't set min_ram and ram together")
        /\ (LookupEnded /\ config.min_disk # 0 /\ config.disk # 0) =>
              HasDiag("Don't set min_disk and disk together")

\* A lookup with min_ram and a larger ram, and with min_disk and a larger
\* disk, that found no flavor: the request asked for the exact values and
\* both warnings came with the error.
C33_Witness ==
    /\ LookupEnded /\ pc = "failed" /\ flavor = NoFlavor
    /\ config.min_ram # 0 /\ config.ram > config.min_ram
    /\ config.min_disk # 0 /\ config.disk > config.min_disk
    /\ \E c \in ListRequests : c.MinRAM = config.ram /\ c.MinDisk = config.disk
    /\ Len(catalogue) = 3
    /\ Len(diags) = 3 /\ HasDiag("Your query returned no results")
====
